---- MODULE Spec2Model ----
(***************************************************************************)
(* A model of the corewars simulator core: the process queue               *)
(* (src/core/process.rs), the memory core with its loader, scheduler step  *)
(* and battle loop (src/core/mod.rs), the opcode engine                    *)
(* (src/core/opcode.rs) and the modular Offset arithmetic                  *)
(* (src/load_file/offset.rs).                                              *)
(*                                                                         *)
(* The per-step snapshot list Core::log is write-only (nothing reads it)   *)
(* and is left out of the state.                                           *)
(***************************************************************************)
EXTENDS Integers, Sequences, FiniteSets, TLC

(***************************************************************************)
(* Bounds of the model and the configuration of the modelled battles.      *)
(***************************************************************************)
CoreSize == 5
MaxCycles == 6
MaxProcesses == 3
MaxWarriorLength == 3
MaxWarriors == 2
MaxOps == 4
LoadCoreSize == 12
MaxMinDistance == 7
MaxModulus == 4
BigCoreSize == 55440
ExecCoreSize == 5
DivCoreSize == 9
MaxUnaryOps == 2

\* the defaults of CoreConfig
DEFAULT_MAX_CYCLES == 10000
DEFAULT_CORE_SIZE == 8000
DEFAULT_MAX_PROCESSES == 10000
DEFAULT_MAX_WARRIOR_LENGTH == 100
DEFAULT_MIN_DISTANCE == 1000

\* Option::None for an Option<Offset> or an Option<usize>
None == -1

VARIABLES
    config,         \* Core::config
    instructions,   \* Core::instructions
    process_queue,  \* Core::process_queue: [queue, processes, next_thread_id]
    steps_taken,    \* Core::steps_taken
    warriors,       \* Core::warriors
    results,        \* the local `results` map of Core::run
    pc,             \* where the caller is: "load", "run", "finish", "done", "queue"
    step_result,    \* the StepResult of the last step() call (None before any)
    load_result,    \* the Result of the last load_warrior call (None before any)
    executed,       \* history: the Executed / error of every step that popped
    pushed,         \* history: every entry handed to Queue::push, in call order
    popped,         \* history: every entry returned by Queue::pop, in call order
    pushed_at,      \* history: steps_taken of the step that made each push (0: load)
    queue_result,   \* the value returned by the last direct Queue call
    placement,      \* history: the cell each loaded warrior was placed at
    programs,       \* history: the program of each loaded warrior
    args,           \* load_warriors: the warriors it was called with
    chosen,         \* load_warriors: the placement it chose for each of them
    calc,           \* Offset: the operands and the result of the last operation
    call,           \* opcode::execute called directly, or by one step() call: the
                    \* core and the program counter it was called with
    twin,           \* a second Core, made with the fields of the first, and the
                    \* local `results` map and the position of its own run()
    evaluated       \* expression evaluator: the last parse tree evaluated and
                    \* the outcome

vars == <<config, instructions, process_queue, steps_taken, warriors, results, pc,
          step_result, load_result, executed, pushed, popped, pushed_at, queue_result,
          placement, programs, args, chosen, calc, call, twin, evaluated>>

(***************************************************************************)
(* Offset                                                                  *)
(***************************************************************************)
\* Mutant: the remainder takes the sign of the value (% for rem_euclid)
offset_value_truncated(value, core_size) ==
    IF value >= 0 THEN value % core_size ELSE -((-value) % core_size)

\* i32::rem_euclid, for a positive core_size
offset_value(value, core_size) == value % core_size

OffsetNew(value, core_size) == offset_value(value, core_size)

MaxI32 == 2147483647

\* the product of two i32 in 0 .. 2^16 - 1 does not fit an i32
mul_overflows(a, b) == a # 0 /\ b > MaxI32 \div a

\* the i32 product of a and b in 0 .. 2^16 - 1 as a build without overflow
\* checks computes it: the low 32 bits of the product, read as a signed
\* number (worked out in 16-bit halves)
wrapping_mul(a, b) ==
    LET bl == b % 256
        bh == b \div 256
        t == a * bl
        u == a * bh
        low == t + (u % 256) * 256
        lo == low % 65536
        hi == (u \div 256 + low \div 65536) % 65536
    IN IF hi >= 32768 THEN (hi - 65536) * 65536 + lo ELSE hi * 65536 + lo

\* the operators of Offset on two Offsets of one core size, given by value
OffsetAdd(a, b, m) == OffsetNew(a + b, m)
OffsetSub(a, b, m) == OffsetNew(a - b, m)
OffsetMul(a, b, m) == OffsetNew(wrapping_mul(a, b), m)
OffsetDiv(a, b, m) == OffsetNew(a \div b, m)
OffsetRem(a, b, m) == OffsetNew(a % b, m)

OffsetOps == {"add", "sub", "mul", "div", "rem"}

OffsetOp(op, a, b, m) ==
    CASE op = "add" -> OffsetAdd(a, b, m)
      [] op = "sub" -> OffsetSub(a, b, m)
      [] op = "mul" -> OffsetMul(a, b, m)
      [] op = "div" -> OffsetDiv(a, b, m)
      [] op = "rem" -> OffsetRem(a, b, m)

\* the operators of Offset with an i32 on the right
OffsetOpRaw(op, a, k, m) == OffsetOp(op, a, OffsetNew(k, m), m)

\* the compound assignments: with an Offset, and with an i32
OffsetAssign(op, a, b, m) == OffsetOp(op, a, b, m)
OffsetAssignRaw(op, a, k, m) == offset_value(OffsetOpRaw(op, a, k, m), m)

\* no Offset operation was made yet
NoCalc == [modulus |-> None, a |-> None, b |-> None, op |-> "None", form |-> "None",
           outcome |-> "None", result |-> None]

(***************************************************************************)
(* Instructions                                                            *)
(***************************************************************************)
Field(mode, value) == [address_mode |-> mode, value |-> value]

Instruction(opcode, modifier, a_field, b_field) ==
    [opcode |-> opcode, modifier |-> modifier, a_field |-> a_field, b_field |-> b_field]

InstructionDefault == Instruction("DAT", "F", Field("$", 0), Field("$", 0))

\* Option::None for an Option<Instruction>
NoInstruction == Instruction("None", "None", Field("None", None), Field("None", None))

(***************************************************************************)
(* process::Queue and process::Error                                       *)
(***************************************************************************)
NoRemainingProcesses == [error |-> "NoRemainingProcesses", offset |-> None]
ExecuteDat(offset) == [error |-> "ExecuteDat", offset |-> offset]
DivideByZero == [error |-> "DivideByZero", offset |-> None]

\* Option::None for an Option<process::Error>, and Ok(()) for a Result<(), Error>
NoError == [error |-> "None", offset |-> None]

EmptyMap == [w \in {} |-> 0]

MapPut(map, key, value) ==
    [k \in (DOMAIN map) \cup {key} |-> IF k = key THEN value ELSE map[k]]

MapGetOr(map, key, default) == IF key \in DOMAIN map THEN map[key] ELSE default

Entry(id, thread, offset) == [id |-> id, thread |-> thread, offset |-> offset]

QueueNew == [queue |-> <<>>, processes |-> EmptyMap, next_thread_id |-> EmptyMap]

saturating_sub(a, b) == IF a >= b THEN a - b ELSE 0

\* Mutant: pop forgets to decrement the warrior's count
QueuePop_stale_count(q) ==
    IF q.queue = <<>>
    THEN [res |-> "Err", entry |-> NoRemainingProcesses, q |-> q]
    ELSE [res |-> "Ok", entry |-> Head(q.queue), q |-> [q EXCEPT !.queue = Tail(q.queue)]]

\* Mutant: pop takes the newest entry (pop_back for pop_front)
QueuePop_newest(q) ==
    IF q.queue = <<>>
    THEN [res |-> "Err", entry |-> NoRemainingProcesses, q |-> q]
    ELSE LET entry == q.queue[Len(q.queue)]
             decremented == saturating_sub(q.processes[entry.id], 1)
         IN [res |-> "Ok", entry |-> entry,
             q |-> [q EXCEPT !.queue = SubSeq(q.queue, 1, Len(q.queue) - 1),
                             !.processes = MapPut(q.processes, entry.id, decremented)]]

\* Queue::pop: [res: "Ok"/"Err", entry, q]
QueuePop(q) ==
    IF q.queue = <<>>
    THEN [res |-> "Err", entry |-> NoRemainingProcesses, q |-> q]
    ELSE LET entry == Head(q.queue)
             decremented == saturating_sub(q.processes[entry.id], 1)
         IN [res |-> "Ok", entry |-> entry,
             q |-> [q EXCEPT !.queue = Tail(q.queue),
                             !.processes = MapPut(q.processes, entry.id, decremented)]]

\* Queue::peek
QueuePeek(q) ==
    IF q.queue = <<>>
    THEN [res |-> "Err", entry |-> NoRemainingProcesses]
    ELSE [res |-> "Ok", entry |-> q.queue[1]]

\* Mutant: the first thread id of a warrior is 1
PushThreadId_from_one(q, warrior_id, thread) ==
    IF thread = None THEN MapGetOr(q.next_thread_id, warrior_id, 1) ELSE thread

\* the thread id Queue::push gives the entry
PushThreadId(q, warrior_id, thread) ==
    IF thread = None THEN MapGetOr(q.next_thread_id, warrior_id, 0) ELSE thread

\* Mutant: push puts the entry at the front (push_front for push_back)
QueuePush_front(q, warrior_id, offset, thread) ==
    LET thread_id == IF thread = None
                     THEN MapGetOr(q.next_thread_id, warrior_id, 0)
                     ELSE thread
        next == IF thread = None
                THEN MapPut(q.next_thread_id, warrior_id, thread_id + 1)
                ELSE q.next_thread_id
    IN [queue |-> <<Entry(warrior_id, thread_id, offset)>> \o q.queue,
        processes |-> MapPut(q.processes, warrior_id,
                             MapGetOr(q.processes, warrior_id, 0) + 1),
        next_thread_id |-> next]

\* Mutant: push leaves the counter of thread ids as it is
QueuePush_keeps_counter(q, warrior_id, offset, thread) ==
    [queue |-> Append(q.queue,
                      Entry(warrior_id, PushThreadId(q, warrior_id, thread), offset)),
     processes |-> MapPut(q.processes, warrior_id,
                          MapGetOr(q.processes, warrior_id, 0) + 1),
     next_thread_id |-> IF thread = None
                        THEN MapPut(q.next_thread_id, warrior_id,
                                    PushThreadId(q, warrior_id, thread))
                        ELSE q.next_thread_id]

\* Queue::push
QueuePush(q, warrior_id, offset, thread) ==
    LET thread_id == PushThreadId(q, warrior_id, thread)
        next == IF thread = None
                THEN MapPut(q.next_thread_id, warrior_id, thread_id + 1)
                ELSE q.next_thread_id
    IN [queue |-> Append(q.queue, Entry(warrior_id, thread_id, offset)),
        processes |-> MapPut(q.processes, warrior_id,
                             MapGetOr(q.processes, warrior_id, 0) + 1),
        next_thread_id |-> next]

\* what a direct call of the queue returned: Result<Entry, Error>
NoEntry == Entry(None, None, None)
QueueResult(op, r) ==
    [op |-> op, res |-> r.res,
     entry |-> IF r.res = "Ok" THEN r.entry ELSE NoEntry,
     error |-> IF r.res = "Ok" THEN NoError ELSE r.entry]
NoQueueCall == [op |-> "None", res |-> "None", entry |-> NoEntry, error |-> NoError]

\* Queue::thread_count
thread_count(q, warrior_id) == q.processes[warrior_id]

(***************************************************************************)
(* modifier::Executor and address resolution: operand pointers, the        *)
(* side effects of predecrement / postincrement, the latched operands and  *)
(* the modifier's choice of fields.                                        *)
(***************************************************************************)
AModes == {"*", "{", "}"}

FieldOf(instruction, which) ==
    IF which = "a" THEN instruction.a_field.value ELSE instruction.b_field.value

SetField(instruction, which, value) ==
    IF which = "a"
    THEN [instruction EXCEPT !.a_field.value = value]
    ELSE [instruction EXCEPT !.b_field.value = value]

\* the core with one field of the cell at `at` changed by delta
BumpField(cells, at, which, delta, m) ==
    [cells EXCEPT ![at] = SetField(@, which, OffsetNew(FieldOf(@, which) + delta, m))]

\* [ptr: the absolute offset the field points at, cells: the core afterwards]
ResolvePointer(cells, program_counter, field, m) ==
    LET mode == field.address_mode
        inter == OffsetAdd(program_counter, field.value, m)
        which == IF mode \in AModes THEN "a" ELSE "b"
        decremented == BumpField(cells, inter, which, -1, m)
    IN CASE mode = "#" -> [ptr |-> program_counter, cells |-> cells]
         [] mode = "$" -> [ptr |-> inter, cells |-> cells]
         [] mode \in {"*", "@"} ->
                [ptr |-> OffsetAdd(inter, FieldOf(cells[inter], which), m),
                 cells |-> cells]
         [] mode \in {"{", "<"} ->
                [ptr |-> OffsetAdd(inter, FieldOf(decremented[inter], which), m),
                 cells |-> decremented]
         [] mode \in {"}", ">"} ->
                [ptr |-> OffsetAdd(inter, FieldOf(cells[inter], which), m),
                 cells |-> BumpField(cells, inter, which, 1, m)]

\* Executor::new: resolve A, latch the A operand, resolve B, latch the B operand
ExecutorNew(cells, program_counter, m) ==
    LET instruction == cells[program_counter]
        ra == ResolvePointer(cells, program_counter, instruction.a_field, m)
        a_instruction == ra.cells[ra.ptr]
        rb == ResolvePointer(ra.cells, program_counter, instruction.b_field, m)
        b_instruction == rb.cells[rb.ptr]
    IN [cells |-> rb.cells, modifier |-> instruction.modifier,
        a_ptr |-> ra.ptr, b_ptr |-> rb.ptr,
        a_instruction |-> a_instruction, b_instruction |-> b_instruction]

\* the (A value, B value, written field) of every side the modifier selects
FieldPairs(ex) ==
    LET a == ex.a_instruction
        b == ex.b_instruction
        P(x, y, dest) == [a |-> x, b |-> y, dest |-> dest]
        aa == P(FieldOf(a, "a"), FieldOf(b, "a"), "a")
        bb == P(FieldOf(a, "b"), FieldOf(b, "b"), "b")
        ab == P(FieldOf(a, "a"), FieldOf(b, "b"), "b")
        ba == P(FieldOf(a, "b"), FieldOf(b, "a"), "a")
    IN CASE ex.modifier = "A" -> <<aa>>
         [] ex.modifier = "B" -> <<bb>>
         [] ex.modifier = "AB" -> <<ab>>
         [] ex.modifier = "BA" -> <<ba>>
         [] ex.modifier \in {"F", "I"} -> <<aa, bb>>
         [] ex.modifier = "X" -> <<ab, ba>>

\* Mutant: the closure of Djn tests the decremented value and writes nothing
field_op_djn_unwritten(opcode, a, b, m) ==
    CASE opcode = "MOV" -> a
      [] opcode = "ADD" -> OffsetAdd(a, b, m)
      [] opcode = "MUL" -> OffsetMul(a, b, m)
      [] opcode = "SUB" -> OffsetSub(b, a, m)
      [] opcode = "DIV" -> IF b = 0 THEN None ELSE OffsetDiv(a, b, m)
      [] opcode = "MOD" -> IF b = 0 THEN None ELSE OffsetRem(a, b, m)
      [] OTHER -> None

\* Mutant: the closures of Div and Mod divide the field of the B operand by
\* the field of the A operand
field_op_divides_target(opcode, a, b, m) ==
    CASE opcode = "MOV" -> a
      [] opcode = "ADD" -> OffsetAdd(a, b, m)
      [] opcode = "MUL" -> OffsetMul(a, b, m)
      [] opcode = "SUB" -> OffsetSub(b, a, m)
      [] opcode = "DIV" -> IF b = 0 THEN None ELSE IF a = 0 THEN b ELSE OffsetDiv(b, a, m)
      [] opcode = "MOD" -> IF b = 0 THEN None ELSE IF a = 0 THEN b ELSE OffsetRem(b, a, m)
      [] opcode = "DJN" -> OffsetSub(b, 1, m)
      [] OTHER -> None

\* the closure each opcode hands to run_on_fields / run_on_instructions, for
\* the fields (a of the A operand, b of the B operand) of one selected side:
\* the value it returns, Some(value) to be written or None
field_op(opcode, a, b, m) ==
    CASE opcode = "MOV" -> a
      [] opcode = "ADD" -> OffsetAdd(a, b, m)
      [] opcode = "MUL" -> OffsetMul(a, b, m)
      [] opcode = "SUB" -> OffsetSub(b, a, m)
      [] opcode = "DIV" -> IF b = 0 THEN None ELSE OffsetDiv(a, b, m)
      [] opcode = "MOD" -> IF b = 0 THEN None ELSE OffsetRem(a, b, m)
      [] opcode = "DJN" -> OffsetSub(b, 1, m)
      [] OTHER -> None

\* Mutant: the closures of Cmp, Seq and Sne take a for unequal to b only when
\* it is greater
field_flag_unequal_is_greater(opcode, a, b, m) ==
    CASE opcode \in {"DIV", "MOD"} -> b = 0
      [] opcode \in {"CMP", "SEQ", "SNE"} -> a > b
      [] opcode = "SLT" -> a >= b
      [] opcode = "DJN" -> OffsetSub(b, 1, m) # OffsetNew(0, m)
      [] opcode = "JMN" -> b # OffsetNew(0, m)
      [] opcode = "JMZ" -> b = OffsetNew(0, m)
      [] OTHER -> FALSE

\* Mutant: the closures of Div and Mod test the dividend for zero
field_flag_tests_dividend(opcode, a, b, m) ==
    CASE opcode \in {"DIV", "MOD"} -> a = 0
      [] opcode \in {"CMP", "SEQ", "SNE"} -> a # b
      [] opcode = "SLT" -> a >= b
      [] opcode = "DJN" -> OffsetSub(b, 1, m) # OffsetNew(0, m)
      [] opcode = "JMN" -> b # OffsetNew(0, m)
      [] opcode = "JMZ" -> b = OffsetNew(0, m)
      [] OTHER -> FALSE

\* Mutant: the closures of Div and Mod test the divisor for a negative value
field_flag_tests_negative(opcode, a, b, m) ==
    CASE opcode \in {"DIV", "MOD"} -> b < 0
      [] opcode \in {"CMP", "SEQ", "SNE"} -> a # b
      [] opcode = "SLT" -> a >= b
      [] opcode = "DJN" -> OffsetSub(b, 1, m) # OffsetNew(0, m)
      [] opcode = "JMN" -> b # OffsetNew(0, m)
      [] opcode = "JMZ" -> b = OffsetNew(0, m)
      [] OTHER -> FALSE

\* whether that closure assigns the variable it captured (div_result,
\* rem_result or program_counter_offset) on this side
field_flag(opcode, a, b, m) ==
    CASE opcode \in {"DIV", "MOD"} -> b = 0
      [] opcode \in {"CMP", "SEQ", "SNE"} -> a # b
      [] opcode = "SLT" -> a >= b
      [] opcode = "DJN" -> OffsetSub(b, 1, m) # OffsetNew(0, m)
      [] opcode = "JMN" -> b # OffsetNew(0, m)
      [] opcode = "JMZ" -> b = OffsetNew(0, m)
      [] OTHER -> FALSE

\* Mutant: MOV.I gives back the target instead of the source
instruction_op_keeps_target(opcode, a, b) == IF opcode = "MOV" THEN b ELSE NoInstruction

\* the closure handed to run_on_instructions for whole instructions
instruction_op(opcode, a, b) == IF opcode = "MOV" THEN a ELSE NoInstruction

instruction_flag(opcode, a, b) == opcode \in {"CMP", "SEQ", "SNE"} /\ a # b

\* Executor::run_on_fields: the core after the closure's writes
run_on_fields(ex, opcode, m) ==
    LET pairs == FieldPairs(ex)
        Written(cell, i) ==
            IF field_op(opcode, pairs[i].a, pairs[i].b, m) = None
            THEN cell
            ELSE SetField(cell, pairs[i].dest, field_op(opcode, pairs[i].a, pairs[i].b, m))
        first == Written(ex.cells[ex.b_ptr], 1)
        last == IF Len(pairs) = 2 THEN Written(first, 2) ELSE first
    IN [ex.cells EXCEPT ![ex.b_ptr] = last]

\* Executor::run_on_instructions: modifier I works on whole instructions,
\* every other modifier on fields
run_on_instructions(ex, opcode, m) ==
    IF ex.modifier = "I"
    THEN IF instruction_op(opcode, ex.a_instruction, ex.b_instruction) = NoInstruction
         THEN ex.cells
         ELSE [ex.cells EXCEPT ![ex.b_ptr] =
                   instruction_op(opcode, ex.a_instruction, ex.b_instruction)]
    ELSE run_on_fields(ex, opcode, m)

\* the closure of run_on_fields assigned its captured variable on some side
fields_flagged(ex, opcode, m) ==
    \E i \in DOMAIN FieldPairs(ex) :
        field_flag(opcode, FieldPairs(ex)[i].a, FieldPairs(ex)[i].b, m)

\* the same for run_on_instructions
instructions_flagged(ex, opcode, m) ==
    IF ex.modifier = "I"
    THEN instruction_flag(opcode, ex.a_instruction, ex.b_instruction)
    ELSE fields_flagged(ex, opcode, m)

(***************************************************************************)
(* opcode::execute                                                         *)
(***************************************************************************)
Executed(cells, program_counter_offset, should_split) ==
    [cells |-> cells, err |-> NoError,
     program_counter_offset |-> program_counter_offset, should_split |-> should_split]

Failed(cells, err) ==
    [cells |-> cells, err |-> err, program_counter_offset |-> None, should_split |-> FALSE]

\* Mutant: Jmp does not set the program counter offset
execute_opcode_jmp_falls_through(opcode, ex, program_counter, m) ==
    LET skip_one == OffsetNew(2, m)
        jump_offset == OffsetSub(ex.a_ptr, program_counter, m)
    IN CASE opcode = "DAT" -> Failed(ex.cells, ExecuteDat(program_counter))
         [] opcode = "MOV" -> Executed(run_on_instructions(ex, opcode, m), None, FALSE)
         [] opcode = "NOP" -> Executed(ex.cells, None, FALSE)
         [] opcode \in {"ADD", "MUL", "SUB"} ->
                Executed(run_on_fields(ex, opcode, m), None, FALSE)
         [] opcode \in {"DIV", "MOD"} ->
                IF fields_flagged(ex, opcode, m)
                THEN Failed(run_on_fields(ex, opcode, m), DivideByZero)
                ELSE Executed(run_on_fields(ex, opcode, m), None, FALSE)
         [] opcode \in {"CMP", "SEQ"} ->
                Executed(run_on_instructions(ex, opcode, m),
                         IF instructions_flagged(ex, opcode, m) THEN None ELSE skip_one,
                         FALSE)
         [] opcode = "SLT" ->
                Executed(run_on_fields(ex, opcode, m),
                         IF fields_flagged(ex, opcode, m) THEN None ELSE skip_one,
                         FALSE)
         [] opcode = "SNE" ->
                Executed(run_on_instructions(ex, opcode, m),
                         IF instructions_flagged(ex, opcode, m) THEN skip_one ELSE None,
                         FALSE)
         [] opcode \in {"DJN", "JMN", "JMZ"} ->
                Executed(run_on_fields(ex, opcode, m),
                         IF fields_flagged(ex, opcode, m) THEN jump_offset ELSE None,
                         FALSE)
         [] opcode = "JMP" -> Executed(ex.cells, None, FALSE)
         [] opcode = "SPL" -> Executed(ex.cells, jump_offset, TRUE)

\* the match of opcode::execute, on the Executor built for the instruction
execute_opcode(opcode, ex, program_counter, m) ==
    LET skip_one == OffsetNew(2, m)
        jump_offset == OffsetSub(ex.a_ptr, program_counter, m)
    IN CASE opcode = "DAT" -> Failed(ex.cells, ExecuteDat(program_counter))
         [] opcode = "MOV" -> Executed(run_on_instructions(ex, opcode, m), None, FALSE)
         [] opcode = "NOP" -> Executed(ex.cells, None, FALSE)
         [] opcode \in {"ADD", "MUL", "SUB"} ->
                Executed(run_on_fields(ex, opcode, m), None, FALSE)
         [] opcode \in {"DIV", "MOD"} ->
                IF fields_flagged(ex, opcode, m)
                THEN Failed(run_on_fields(ex, opcode, m), DivideByZero)
                ELSE Executed(run_on_fields(ex, opcode, m), None, FALSE)
         [] opcode \in {"CMP", "SEQ"} ->
                Executed(run_on_instructions(ex, opcode, m),
                         IF instructions_flagged(ex, opcode, m) THEN None ELSE skip_one,
                         FALSE)
         [] opcode = "SLT" ->
                Executed(run_on_fields(ex, opcode, m),
                         IF fields_flagged(ex, opcode, m) THEN None ELSE skip_one,
                         FALSE)
         [] opcode = "SNE" ->
                Executed(run_on_instructions(ex, opcode, m),
                         IF instructions_flagged(ex, opcode, m) THEN skip_one ELSE None,
                         FALSE)
         [] opcode \in {"DJN", "JMN", "JMZ"} ->
                Executed(run_on_fields(ex, opcode, m),
                         IF fields_flagged(ex, opcode, m) THEN jump_offset ELSE None,
                         FALSE)
         [] opcode \in {"JMP", "SPL"} -> Executed(ex.cells, jump_offset, opcode = "SPL")

\* Mutant: DAT fails before the Executor resolves the operands
execute_dat_first(cells, program_counter, m) ==
    IF cells[program_counter].opcode = "DAT"
    THEN Failed(cells, ExecuteDat(program_counter))
    ELSE execute_opcode(cells[program_counter].opcode,
                        ExecutorNew(cells, program_counter, m), program_counter, m)

\* Mutant: the A operand is read from the core when the opcode runs, after
\* the B operand has been resolved
execute_a_operand_unlatched(cells, program_counter, m) ==
    CHOOSE out \in {execute_opcode(cells[program_counter].opcode,
                                   [ex EXCEPT !.a_instruction = ex.cells[ex.a_ptr]],
                                   program_counter, m) :
                        ex \in {ExecutorNew(cells, program_counter, m)}} : TRUE

\* opcode::execute (the Executor is built once, then matched on)
execute(cells, program_counter, m) ==
    CHOOSE out \in {execute_opcode(cells[program_counter].opcode, ex, program_counter, m) :
                        ex \in {ExecutorNew(cells, program_counter, m)}} : TRUE

\* opcode::execute was not called directly
NoExecuteCall == [cells |-> <<>>, program_counter |-> None]

\* no second core was made
NoTwin == [pc |-> "None"]

\* the evaluator was not called
NoEvaluation == [tree |-> <<>>, value |-> None, panicked |-> FALSE]

(***************************************************************************)
(* Core: construction, loading, step and run                               *)
(***************************************************************************)
\* Core::offset
offset(value, m) == OffsetNew(value, m)

\* Mutant: only the B-field is normalized
normalize_b_only(instruction, m) ==
    [instruction EXCEPT !.b_field.value = offset(@, m)]

\* Core::normalize
normalize(instruction, m) ==
    [instruction EXCEPT !.a_field.value = offset(@, m), !.b_field.value = offset(@, m)]

\* BattleResult
Win == [kind |-> "Win", err |-> NoError]
Tie == [kind |-> "Tie", err |-> NoError]
Loss(err) == [kind |-> "Loss", err |-> err]

\* StepResult
Continue(id, err) == [kind |-> "Continue", id |-> id, err |-> err]
Halt == [kind |-> "Halt", id |-> None, err |-> NoError]

\* no step() call was made yet
NoStep == [kind |-> "None", id |-> None, err |-> NoError]

\* Result<WarriorID, Error> of load_warrior
Ok(value) == [ok |-> TRUE, value |-> value, error |-> "None"]
Err(error) == [ok |-> FALSE, value |-> None, error |-> error]
NoCall == [ok |-> FALSE, value |-> None, error |-> "NoCall"]

\* what step() did, for the history: the instruction it executed and how
\* execute() ended
Trace(instruction, result) ==
    [instruction |-> instruction, err |-> result.err,
     program_counter_offset |-> result.program_counter_offset,
     should_split |-> result.should_split]

\* Mutant: every task error is reported as the warrior's loss
step_failed_always_loss(cells, q, current_process, result, steps) ==
    [instructions |-> result.cells, process_queue |-> q, steps_taken |-> steps,
     result |-> Continue(current_process.id, result.err),
     popped |-> <<current_process>>, pushes |-> <<>>,
     executed |-> <<Trace(cells[current_process.offset], result)>>]

\* Mutant: a task error removes every queued thread of the warrior
step_failed_drops_warrior(cells, q, current_process, result, steps) ==
    [instructions |-> result.cells,
     process_queue |->
         [q EXCEPT !.queue = SelectSeq(q.queue, LAMBDA e : e.id # current_process.id),
                   !.processes = MapPut(q.processes, current_process.id, 0)],
     steps_taken |-> steps,
     result |-> Continue(current_process.id, result.err),
     popped |-> <<current_process>>, pushes |-> <<>>,
     executed |-> <<Trace(cells[current_process.offset], result)>>]

\* Core::step, the arm Err(err) of `match result`: the task is not enqueued
\* again (q is the queue after the pop)
step_failed(cells, q, current_process, result, steps) ==
    [instructions |-> result.cells, process_queue |-> q, steps_taken |-> steps,
     result |-> Continue(current_process.id,
                         IF thread_count(q, current_process.id) < 1
                         THEN result.err ELSE NoError),
     popped |-> <<current_process>>, pushes |-> <<>>,
     executed |-> <<Trace(cells[current_process.offset], result)>>]

\* Mutant: a split enqueues the new thread first and the continuation second
step_succeeded_new_first(cells, q, current_process, result, steps, m) ==
    LET continuation == OffsetAdd(current_process.offset, 1, m)
        new_thread_id == IF result.should_split THEN None ELSE current_process.thread
        pc_offset == IF result.program_counter_offset = None
                     THEN offset(1, m)
                     ELSE result.program_counter_offset
        target == OffsetAdd(current_process.offset, pc_offset, m)
        q1 == QueuePush(q, current_process.id, target, new_thread_id)
        successor == Entry(current_process.id,
                           PushThreadId(q, current_process.id, new_thread_id), target)
    IN [instructions |-> result.cells,
        process_queue |-> IF result.should_split
                          THEN QueuePush(q1, current_process.id, continuation,
                                         current_process.thread)
                          ELSE q1,
        steps_taken |-> steps,
        result |-> Continue(current_process.id, NoError),
        popped |-> <<current_process>>,
        pushes |-> IF result.should_split
                   THEN <<successor,
                          Entry(current_process.id, current_process.thread, continuation)>>
                   ELSE <<successor>>,
        executed |-> <<Trace(cells[current_process.offset], result)>>]

\* Mutant: the offset a jump asks for is ignored, the task moves on by one
step_succeeded_ignores_jump(cells, q, current_process, result, steps, m) ==
    LET continuation == OffsetAdd(current_process.offset, 1, m)
        q1 == IF result.should_split
              THEN QueuePush(q, current_process.id, continuation, current_process.thread)
              ELSE q
        new_thread_id == IF result.should_split THEN None ELSE current_process.thread
        successor == Entry(current_process.id,
                           PushThreadId(q1, current_process.id, new_thread_id),
                           continuation)
    IN [instructions |-> result.cells,
        process_queue |-> QueuePush(q1, current_process.id, continuation, new_thread_id),
        steps_taken |-> steps,
        result |-> Continue(current_process.id, NoError),
        popped |-> <<current_process>>,
        pushes |-> IF result.should_split
                   THEN <<Entry(current_process.id, current_process.thread, continuation),
                          successor>>
                   ELSE <<successor>>,
        executed |-> <<Trace(cells[current_process.offset], result)>>]

\* Mutant: the successor is enqueued as a new thread of the warrior
step_succeeded_as_new_thread(cells, q, current_process, result, steps, m) ==
    LET continuation == OffsetAdd(current_process.offset, 1, m)
        q1 == IF result.should_split
              THEN QueuePush(q, current_process.id, continuation, current_process.thread)
              ELSE q
        pc_offset == IF result.program_counter_offset = None
                     THEN offset(1, m)
                     ELSE result.program_counter_offset
        target == OffsetAdd(current_process.offset, pc_offset, m)
        successor == Entry(current_process.id,
                           PushThreadId(q1, current_process.id, None), target)
    IN [instructions |-> result.cells,
        process_queue |-> QueuePush(q1, current_process.id, target, None),
        steps_taken |-> steps,
        result |-> Continue(current_process.id, NoError),
        popped |-> <<current_process>>,
        pushes |-> IF result.should_split
                   THEN <<Entry(current_process.id, current_process.thread, continuation),
                          successor>>
                   ELSE <<successor>>,
        executed |-> <<Trace(cells[current_process.offset], result)>>]

\* Mutant: the entries are pushed for the first warrior, whoever was popped
step_succeeded_for_first_warrior(cells, q, current_process, result, steps, m) ==
    LET continuation == OffsetAdd(current_process.offset, 1, m)
        q1 == IF result.should_split
              THEN QueuePush(q, 0, continuation, current_process.thread)
              ELSE q
        new_thread_id == IF result.should_split THEN None ELSE current_process.thread
        pc_offset == IF result.program_counter_offset = None
                     THEN offset(1, m)
                     ELSE result.program_counter_offset
        target == OffsetAdd(current_process.offset, pc_offset, m)
        successor == Entry(0, PushThreadId(q1, 0, new_thread_id), target)
    IN [instructions |-> result.cells,
        process_queue |-> QueuePush(q1, 0, target, new_thread_id),
        steps_taken |-> steps,
        result |-> Continue(current_process.id, NoError),
        popped |-> <<current_process>>,
        pushes |-> IF result.should_split
                   THEN <<Entry(0, current_process.thread, continuation), successor>>
                   ELSE <<successor>>,
        executed |-> <<Trace(cells[current_process.offset], result)>>]

\* Core::step, the arm Ok(result) of `match result`: the pushes
step_succeeded(cells, q, current_process, result, steps, m) ==
    LET continuation == OffsetAdd(current_process.offset, 1, m)
        q1 == IF result.should_split
              THEN QueuePush(q, current_process.id, continuation, current_process.thread)
              ELSE q
        new_thread_id == IF result.should_split THEN None ELSE current_process.thread
        pc_offset == IF result.program_counter_offset = None
                     THEN offset(1, m)
                     ELSE result.program_counter_offset
        target == OffsetAdd(current_process.offset, pc_offset, m)
        successor == Entry(current_process.id,
                           PushThreadId(q1, current_process.id, new_thread_id), target)
    IN [instructions |-> result.cells,
        process_queue |-> QueuePush(q1, current_process.id, target, new_thread_id),
        steps_taken |-> steps,
        result |-> Continue(current_process.id, NoError),
        popped |-> <<current_process>>,
        pushes |-> IF result.should_split
                   THEN <<Entry(current_process.id, current_process.thread, continuation),
                          successor>>
                   ELSE <<successor>>,
        executed |-> <<Trace(cells[current_process.offset], result)>>]

\* Mutant: steps_taken is incremented only when the instruction succeeds
step_execute_uncounted_failure(cells, q, current_process, result, steps, m) ==
    IF result.err # NoError
    THEN step_failed(cells, q, current_process, result, steps)
    ELSE step_succeeded(cells, q, current_process, result, steps + 1, m)

\* Core::step after a successful pop: steps_taken += 1, execute, match
step_execute(cells, q, current_process, result, steps, m) ==
    IF result.err # NoError
    THEN step_failed(cells, q, current_process, result, steps + 1)
    ELSE step_succeeded(cells, q, current_process, result, steps + 1, m)

\* Mutant: a step on the empty queue counts as a step taken
step_popped_counts_halt(cells, q, p, steps, m) ==
    IF p.res = "Err"
    THEN [instructions |-> cells, process_queue |-> q, steps_taken |-> steps + 1,
          result |-> Halt, popped |-> <<>>, pushes |-> <<>>, executed |-> <<>>]
    ELSE CHOOSE out \in {step_execute(cells, p.q, p.entry, result, steps, m) :
                            result \in {execute(cells, p.entry.offset, m)}} : TRUE

\* Core::step from the pop on (execute is called once, its result matched on)
step_popped(cells, q, p, steps, m) ==
    IF p.res = "Err"
    THEN [instructions |-> cells, process_queue |-> q, steps_taken |-> steps,
          result |-> Halt, popped |-> <<>>, pushes |-> <<>>, executed |-> <<>>]
    ELSE CHOOSE out \in {step_execute(cells, p.q, p.entry, result, steps, m) :
                            result \in {execute(cells, p.entry.offset, m)}} : TRUE

\* Core::step on the core (cells, q, steps): the core afterwards and the
\* StepResult; `popped`, `pushes` and `executed` report what the step did
step(cells, q, steps, m) ==
    CHOOSE out \in {step_popped(cells, q, p, steps, m) : p \in {QueuePop(q)}} : TRUE

\* the survivor count of Core::run
survivor_count(ws, res) ==
    Len(ws) - Cardinality({id \in DOMAIN res : res[id].kind = "Loss"})

\* Mutant: every survivor is given Win, however many there are
final_results_all_win(ws, res) ==
    [id \in (DOMAIN res) \cup {ws[i] : i \in DOMAIN ws} |->
        IF id \in DOMAIN res THEN res[id] ELSE Win]

\* Mutant: the verdict is inserted without looking for a recorded Loss
final_results_overwrite(ws, res) ==
    LET verdict == IF survivor_count(ws, res) > 1 THEN Tie ELSE Win
    IN [id \in (DOMAIN res) \cup {ws[i] : i \in DOMAIN ws} |->
            IF id \in {ws[i] : i \in DOMAIN ws} THEN verdict ELSE res[id]]

\* Mutant: the survivors tie whenever there is one, even a single one
final_results_lone_tie(ws, res) ==
    LET verdict == IF survivor_count(ws, res) >= 1 THEN Tie ELSE Win
    IN [id \in (DOMAIN res) \cup {ws[i] : i \in DOMAIN ws} |->
            IF id \in DOMAIN res THEN res[id] ELSE verdict]

\* the result map Core::run returns
final_results(ws, res) ==
    LET verdict == IF survivor_count(ws, res) > 1 THEN Tie ELSE Win
    IN [id \in (DOMAIN res) \cup {ws[i] : i \in DOMAIN ws} |->
            IF id \in DOMAIN res THEN res[id] ELSE verdict]

(***************************************************************************)
(* The warriors the battles are drawn from                                 *)
(***************************************************************************)
Program(instrs, origin) == [instructions |-> instrs, origin |-> origin]

Suicide == Program(<<Instruction("DAT", "F", Field("#", 0), Field("#", 0))>>, None)

Imp == Program(<<Instruction("MOV", "I", Field("$", 0), Field("$", 1))>>, None)

Loop == Program(<<Instruction("JMP", "B", Field("$", 0), Field("$", 0))>>, None)

Splitter ==
    Program(<<Instruction("SPL", "B", Field("$", 0), Field("$", 0)),
              Instruction("JMP", "B", Field("$", -1), Field("$", 0))>>, None)

DivZero ==
    Program(<<Instruction("DIV", "AB", Field("#", 0), Field("$", 1)),
              Instruction("DAT", "F", Field("#", 4), Field("#", 0))>>, None)

ForkDie ==
    Program(<<Instruction("SPL", "B", Field("$", 1), Field("$", 0)),
              Instruction("NOP", "B", Field("$", 0), Field("$", 0)),
              Instruction("DAT", "F", Field("#", 0), Field("#", 0))>>, None)

ForkLive ==
    Program(<<Instruction("SPL", "B", Field("$", 2), Field("$", 0)),
              Instruction("DAT", "F", Field("#", 0), Field("#", 0)),
              Instruction("JMP", "B", Field("$", 0), Field("$", 0))>>, None)

LateStart ==
    Program(<<Instruction("JMP", "B", Field("$", 0), Field("$", 0)),
              Instruction("DAT", "F", Field("#", 0), Field("#", 0))>>, 1)

TooLong ==
    Program([i \in 1..(MaxWarriorLength + 1) |->
                Instruction("NOP", "B", Field("#", 0), Field("#", 0))], None)

\* counts the B-field of its second instruction down, below zero at once
Counter ==
    Program(<<Instruction("SUB", "AB", Field("#", 1), Field("$", 1)),
              Instruction("JMP", "B", Field("$", -1), Field("$", 0))>>, None)

Warriors ==
    {Suicide, Imp, Loop, Splitter, DivZero, ForkDie, ForkLive, LateStart, TooLong, Counter}

Configs ==
    {[core_size |-> CoreSize, max_cycles |-> c, max_processes |-> MaxProcesses,
      max_warrior_length |-> MaxWarriorLength, min_distance |-> 1] : c \in 1..MaxCycles}

(***************************************************************************)
(* The battle: Core::new, then load_warrior calls, then run                *)
(***************************************************************************)
\* the fields of a Core just built from `config`, and the empty histories
CoreFresh ==
    /\ instructions = [i \in 0..(config.core_size - 1) |-> InstructionDefault]
    /\ process_queue = QueueNew
    /\ steps_taken = 0
    /\ warriors = <<>>
    /\ results = EmptyMap
    /\ step_result = NoStep
    /\ load_result = NoCall
    /\ executed = <<>>
    /\ pushed = <<>>
    /\ popped = <<>>
    /\ pushed_at = <<>>
    /\ queue_result = NoQueueCall
    /\ placement = <<>>
    /\ programs = <<>>
    /\ args = <<>>
    /\ chosen = <<>>
    /\ calc = NoCalc
    /\ call = NoExecuteCall
    /\ twin = NoTwin
    /\ evaluated = NoEvaluation

\* Core::new
CoreNew == config \in Configs /\ CoreFresh

Init == CoreNew /\ pc = "load"

\* Mutant: the length check allows one instruction too many
too_long_off_by_one(warrior, cfg) ==
    Len(warrior.instructions) > cfg.max_warrior_length + 1

\* the length check of Core::load_warrior
too_long(warrior, cfg) == Len(warrior.instructions) > cfg.max_warrior_length

\* Core::load_warrior, called while fewer than `most` warriors are loaded
LoadWarriorOf(warrior, most) ==
    /\ pc = "load"
    /\ Len(warriors) < most
    /\ args' = <<warrior>>
    /\ IF too_long(warrior, config)
       THEN /\ load_result' = Err("WarriorTooLong")
            /\ UNCHANGED <<instructions, process_queue, warriors, pushed, pushed_at,
                           placement, programs>>
       ELSE LET warrior_id == Len(warriors)
                m == config.core_size
                origin == IF warrior.origin = None THEN 0 ELSE warrior.origin
            IN /\ load_result' = Ok(warrior_id)
               /\ warriors' = Append(warriors, warrior_id)
               /\ instructions' =
                      [i \in DOMAIN instructions |->
                          IF i < Len(warrior.instructions)
                          THEN normalize(warrior.instructions[i + 1], m)
                          ELSE instructions[i]]
               /\ process_queue' = QueuePush(process_queue, warrior_id, offset(origin, m), None)
               /\ pushed' = Append(pushed,
                      Entry(warrior_id, PushThreadId(process_queue, warrior_id, None),
                            offset(origin, m)))
               /\ pushed_at' = Append(pushed_at, 0)
               /\ placement' = Append(placement, 0)
               /\ programs' = Append(programs, warrior)
    /\ UNCHANGED <<config, steps_taken, results, pc, step_result, executed, popped,
                   queue_result, chosen, calc, call,
                   twin, evaluated>>

\* Core::load_warrior in a battle of at most MaxWarriors warriors
LoadWarrior(warrior) == LoadWarriorOf(warrior, MaxWarriors)

Load == \E warrior \in Warriors : LoadWarrior(warrior)

\* Core::run is entered: the result map starts empty
RunStart ==
    /\ pc = "load"
    /\ pc' = "run"
    /\ results' = EmptyMap
    /\ UNCHANGED <<config, instructions, process_queue, steps_taken, warriors,
                   step_result, load_result, executed, pushed, popped, pushed_at,
                   queue_result, placement, programs, args, chosen, calc, call,
                   twin, evaluated>>

\* Mutant: every step marks its warrior as lost, error or none
results_after_marks_every_step(res, s_result) ==
    IF s_result.kind = "Continue"
    THEN MapPut(res, s_result.id, Loss(s_result.err))
    ELSE res

\* the `results` map of Core::run after a step that returned s_result
results_after(res, s_result) ==
    IF s_result.kind = "Continue" /\ s_result.err # NoError
    THEN MapPut(res, s_result.id, Loss(s_result.err))
    ELSE res

\* Mutant: a Halt does not break out of the loop
after_step_ignores_halt(s_result, ws, res) ==
    IF Len(ws) > 1 /\ survivor_count(ws, res) <= 1 THEN "finish" ELSE "run"

\* Mutant: the loop goes on while a single warrior is left
after_step_until_none_left(s_result, ws, res) ==
    IF s_result.kind = "Halt"
    THEN "finish"
    ELSE IF Len(ws) > 1 /\ survivor_count(ws, res) < 1 THEN "finish" ELSE "run"

\* where Core::run goes after a step: out of the loop or around it
after_step(s_result, ws, res) ==
    IF s_result.kind = "Halt"
    THEN "finish"
    ELSE IF Len(ws) > 1 /\ survivor_count(ws, res) <= 1 THEN "finish" ELSE "run"

\* the state after the step s of the loop of Core::run
Stepped(s) ==
    /\ instructions' = s.instructions
    /\ process_queue' = s.process_queue
    /\ steps_taken' = s.steps_taken
    /\ step_result' = s.result
    /\ results' = results_after(results, s.result)
    /\ popped' = popped \o s.popped
    /\ pushed' = pushed \o s.pushes
    /\ pushed_at' = pushed_at \o [i \in DOMAIN s.pushes |-> s.steps_taken]
    /\ executed' = executed \o s.executed
    /\ pc' = after_step(s.result, warriors, results')

\* one iteration of the loop of Core::run: a step() and the survivor check
RunStep ==
    /\ pc = "run"
    /\ steps_taken < config.max_cycles
    /\ \E s \in {step(instructions, process_queue, steps_taken, config.core_size)} :
           Stepped(s)
    /\ UNCHANGED <<config, warriors, load_result, queue_result, placement, programs,
                   args, chosen, calc, call,
                   twin, evaluated>>

\* the loop condition of Core::run fails
RunCycleCap ==
    /\ pc = "run"
    /\ ~(steps_taken < config.max_cycles)
    /\ pc' = "finish"
    /\ UNCHANGED <<config, instructions, process_queue, steps_taken, warriors, results,
                   step_result, load_result, executed, pushed, popped, pushed_at,
                   queue_result, placement, programs, args, chosen, calc, call,
                   twin, evaluated>>

\* after the loop of Core::run: the survivors are given Tie or Win
RunFinish ==
    /\ pc = "finish"
    /\ results' = final_results(warriors, results)
    /\ pc' = "done"
    /\ UNCHANGED <<config, instructions, process_queue, steps_taken, warriors,
                   step_result, load_result, executed, pushed, popped, pushed_at,
                   queue_result, placement, programs, args, chosen, calc, call,
                   twin, evaluated>>

Next == Load \/ RunStart \/ RunStep \/ RunCycleCap \/ RunFinish

Spec == Init /\ [][Next]_vars

\* run() is a sequential loop: whenever it can take its next step it does
FairSpec == Spec /\ WF_vars(RunStart \/ RunStep \/ RunCycleCap \/ RunFinish)

(***************************************************************************)
(* The queue on its own: any sequence of push, pop and peek calls          *)
(***************************************************************************)
QueueWarriors == {1, 2}
QueueOffsets == {0, 1}
QueueThreads == {None, 1}

QueueInit == CoreNew /\ pc = "queue" /\ config.max_cycles = MaxCycles

QueueUnchanged ==
    UNCHANGED <<config, instructions, steps_taken, warriors, results, pc, step_result,
                load_result, executed, pushed_at, placement, programs, args, chosen,
                calc, call, twin, evaluated>>

Push(warrior_id, off, thread) ==
    /\ pc = "queue"
    /\ Len(pushed) < MaxOps
    /\ process_queue' = QueuePush(process_queue, warrior_id, off, thread)
    /\ pushed' = Append(pushed,
           Entry(warrior_id, PushThreadId(process_queue, warrior_id, thread), off))
    /\ queue_result' = NoQueueCall
    /\ UNCHANGED popped
    /\ QueueUnchanged

Popped(p) ==
    /\ process_queue' = p.q
    /\ popped' = IF p.res = "Ok" THEN Append(popped, p.entry) ELSE popped
    /\ queue_result' = QueueResult("pop", p)

Pop ==
    /\ pc = "queue"
    /\ Popped(QueuePop(process_queue))
    /\ UNCHANGED pushed
    /\ QueueUnchanged

Peek ==
    /\ pc = "queue"
    /\ queue_result' = QueueResult("peek", QueuePeek(process_queue))
    /\ UNCHANGED <<process_queue, pushed, popped>>
    /\ QueueUnchanged

QueuePushes ==
    \E warrior_id \in QueueWarriors, off \in QueueOffsets, thread \in QueueThreads :
        Push(warrior_id, off, thread)

QueueNext == QueuePushes \/ Pop \/ Peek

QueueSpec == QueueInit /\ [][QueueNext]_vars

(***************************************************************************)
(* Core::load_warriors: one call on a new core.  It checks the spacing,    *)
(* chooses a placement for every warrior, and then loads the warriors one  *)
(* after the other, each at its placement.                                 *)
(***************************************************************************)
\* a warrior whose origin lies beyond the end of the core
FarStart ==
    Program(<<Instruction("JMP", "B", Field("$", 0), Field("$", 0))>>, LoadCoreSize + 1)

Loadable == {Imp, Splitter, LateStart, FarStart, ForkDie, TooLong}

WarriorLists == UNION {[1..n -> Loadable] : n \in 0..MaxWarriors}

LoadConfigs ==
    {[core_size |-> LoadCoreSize, max_cycles |-> MaxCycles, max_processes |-> MaxProcesses,
      max_warrior_length |-> l, min_distance |-> d] :
         l \in 1..MaxWarriorLength, d \in 1..MaxMinDistance}

LoadInit == config \in LoadConfigs /\ CoreFresh /\ pc = "load"

\* the distance between the slots of n warriors
spacing(cfg, n) == cfg.core_size \div n

\* the offsets warrior i (counted from 0) of n may be placed at
placement_range(cfg, n, i) ==
    IF i = 0
    THEN {0}
    ELSE (i * spacing(cfg, n) + cfg.min_distance)
             .. ((i + 1) * spacing(cfg, n) - cfg.max_warrior_length - 1)

\* the placements the random source can give n warriors
Placements(cfg, n) ==
    {ps \in [1..n -> 0..(cfg.core_size - 1)] :
        \A i \in 1..n : ps[i] \in placement_range(cfg, n, i - 1)}

\* load_warriors is called: the empty list, the spacing check, the placements
LoadWarriorsCall(ws) ==
    /\ pc = "load"
    /\ warriors = <<>>
    /\ load_result = NoCall
    /\ args' = ws
    /\ IF Len(ws) = 0
       THEN load_result' = Ok(None) /\ pc' = "loaded" /\ chosen' = <<>>
       ELSE IF spacing(config, Len(ws)) < config.min_distance
       THEN load_result' = Err("MinDistanceTooLarge") /\ pc' = "loaded" /\ chosen' = <<>>
       ELSE IF Placements(config, Len(ws)) = {}
       \* no offset can be chosen from an empty range: the call does not return
       THEN load_result' = Err("Panic") /\ pc' = "loaded" /\ chosen' = <<>>
       ELSE /\ chosen' \in Placements(config, Len(ws))
            /\ pc' = "loading"
            /\ load_result' = NoCall
    /\ UNCHANGED <<config, instructions, process_queue, steps_taken, warriors, results,
                   step_result, executed, pushed, popped, pushed_at, queue_result,
                   placement, programs, calc, call, twin, evaluated>>

\* load_warriors loads its next warrior: the length check, the copy, the push
LoadWarriorsNext ==
    /\ pc = "loading"
    /\ LET warrior_id == Len(warriors)
           warrior == args[warrior_id + 1]
           at == chosen[warrior_id + 1]
           m == config.core_size
           origin == IF warrior.origin = None THEN 0 ELSE warrior.origin
       IN IF too_long(warrior, config)
          THEN /\ load_result' = Err("WarriorTooLong")
               /\ pc' = "loaded"
               /\ UNCHANGED <<instructions, process_queue, warriors, pushed, pushed_at,
                              placement, programs>>
          ELSE /\ warriors' = Append(warriors, warrior_id)
               /\ instructions' =
                      [i \in DOMAIN instructions |->
                          IF at <= i /\ i < at + Len(warrior.instructions)
                          THEN normalize(warrior.instructions[i - at + 1], m)
                          ELSE instructions[i]]
               /\ process_queue' =
                      QueuePush(process_queue, warrior_id, offset(at + origin, m), None)
               /\ pushed' = Append(pushed,
                      Entry(warrior_id, PushThreadId(process_queue, warrior_id, None),
                            offset(at + origin, m)))
               /\ pushed_at' = Append(pushed_at, 0)
               /\ placement' = Append(placement, at)
               /\ programs' = Append(programs, warrior)
               /\ IF warrior_id + 1 = Len(args)
                  THEN load_result' = Ok(None) /\ pc' = "loaded"
                  ELSE UNCHANGED <<load_result, pc>>
    /\ UNCHANGED <<config, steps_taken, results, step_result, executed, popped,
                   queue_result, args, chosen, calc, call,
                   twin, evaluated>>

LoadWarriors == \E ws \in WarriorLists : LoadWarriorsCall(ws)

LoadNext == Load \/ LoadWarriors \/ LoadWarriorsNext

LoadSpec == LoadInit /\ [][LoadNext]_vars

(***************************************************************************)
(* Offset on its own: Offset::new and the operators on operands drawn from *)
(* both sides of the core size.  A division by a zero Offset panics; a     *)
(* product that does not fit an i32 panics in a build with overflow checks *)
(* and wraps in a build without.                                           *)
(***************************************************************************)
Moduli == (1..MaxModulus) \cup {BigCoreSize}

OffsetInputs(m) == {-m - 1, -1, 0, 1, 2, m - 1, m, m + 1, 2 * m + 1}

OffsetForms == {"offset", "raw", "assign", "assign_raw"}

Builds == {"debug", "release"}

OffsetInit ==
    /\ config \in Configs
    /\ config.max_cycles = MaxCycles
    /\ CoreFresh
    /\ pc = "offset"

OffsetUnchanged ==
    UNCHANGED <<config, instructions, process_queue, steps_taken, warriors, results, pc,
                step_result, load_result, executed, pushed, popped, pushed_at,
                queue_result, placement, programs, args, chosen, call, twin,
                evaluated>>

\* Offset::new(a, m)
OffsetCreate(m, a) ==
    /\ pc = "offset"
    /\ calc = NoCalc
    /\ calc' = [modulus |-> m, a |-> a, b |-> None, op |-> "new", form |-> "None",
                outcome |-> "Ok", result |-> OffsetNew(a, m)]
    /\ OffsetUnchanged

\* how an operation on the values x and y of two Offsets ends in a build
OffsetOutcome(op, x, y, build) ==
    IF op \in {"div", "rem"} /\ y = 0
    THEN "Panic"
    ELSE IF op = "mul" /\ mul_overflows(x, y) /\ build = "debug" THEN "Panic" ELSE "Ok"

OffsetResult(op, form, x, y, k, m) ==
    CASE form = "offset" -> OffsetOp(op, x, y, m)
      [] form = "raw" -> OffsetOpRaw(op, x, k, m)
      [] form = "assign" -> OffsetAssign(op, x, y, m)
      [] form = "assign_raw" -> OffsetAssignRaw(op, x, k, m)

\* with x the Offset just made: x op Offset::new(b, m), or x op b, or the
\* assignment forms of the two
OffsetCalc(b, op, form, build) ==
    /\ pc = "offset"
    /\ calc.op = "new"
    /\ LET m == calc.modulus
           x == calc.result
           y == OffsetNew(b, m)
           outcome == OffsetOutcome(op, x, y, build)
       IN calc' = [modulus |-> m, a |-> x, b |-> b, op |-> op, form |-> form,
                   outcome |-> outcome,
                   result |-> IF outcome = "Ok"
                              THEN OffsetResult(op, form, x, y, b, m)
                              ELSE None]
    /\ OffsetUnchanged

OffsetCreates == \E m \in Moduli : \E a \in OffsetInputs(m) : OffsetCreate(m, a)

OffsetCalcs ==
    \E b \in OffsetInputs(calc.modulus) :
        \E op \in OffsetOps, form \in OffsetForms, build \in Builds :
            OffsetCalc(b, op, form, build)

OffsetNext == OffsetCreates \/ OffsetCalcs

OffsetSpec == OffsetInit /\ [][OffsetNext]_vars

\* the Offsets of the program: computed on their own, and inside battles
OffsetCoreInit == Init \/ OffsetInit

OffsetCoreNext == Next \/ OffsetNext

OffsetCoreSpec == OffsetCoreInit /\ [][OffsetCoreNext]_vars

(***************************************************************************)
(* opcode::execute on its own, as its tests call it: a core is built from  *)
(* a short program (the instruction to execute and two cells of data, with *)
(* or without a cell before them) and execute is called once, at the       *)
(* program counter of the loaded warrior.                                  *)
(***************************************************************************)
Opcodes ==
    {"DAT", "MOV", "NOP", "ADD", "SUB", "MUL", "DIV", "MOD", "CMP", "SEQ", "SNE", "SLT",
     "DJN", "JMN", "JMZ", "JMP", "SPL"}

Modifiers == {"A", "B", "AB", "BA", "F", "X", "I"}

\* the address modes of the A- and the B-field of the instruction executed
ModePairs ==
    {<<"$", "$">>, <<"#", "$">>, <<"$", "#">>, <<">", ">">>, <<"<", "@">>,
     <<"{", "}">>, <<"*", "*">>}

\* the values of the fields of the data cells, before normalize: 0, 1 and -1
DataValues == {0, 1, -1}

Pad == Instruction("DAT", "F", Field("#", 0), Field("#", 0))

\* op.md <ma>2, <mb>1 ; dat #a1, #b1 ; dat #a2, $b2
TestProgram(op, md, modes, a1, b1, a2, b2, padded) ==
    LET body == <<Instruction(op, md, Field(modes[1], 2), Field(modes[2], 1)),
                  Instruction("DAT", "F", Field("#", a1), Field("#", b1)),
                  Instruction("DAT", "F", Field("#", a2), Field("$", b2))>>
    IN IF padded THEN Program(<<Pad>> \o body, 1) ELSE Program(body, None)

TestPrograms ==
    {TestProgram(op, md, modes, a1, b1, a2, b2, padded) :
        op \in Opcodes, md \in Modifiers, modes \in ModePairs,
        a1 \in DataValues, b1 \in DataValues, a2 \in DataValues, b2 \in DataValues,
        padded \in BOOLEAN}

\* in the large core: products of large fields
BigPrograms ==
    {TestProgram("MUL", md, <<"$", "$">>, -1, 1, -1, b2, FALSE) :
        md \in {"A", "F"}, b2 \in {1, -1}}

ExecConfigs ==
    {[core_size |-> n, max_cycles |-> MaxCycles, max_processes |-> MaxProcesses,
      max_warrior_length |-> MaxWarriorLength + 1, min_distance |-> 1] :
        n \in {ExecCoreSize, BigCoreSize}}

ExecInit ==
    /\ config \in ExecConfigs
    /\ CoreFresh
    /\ pc = "load"

\* tests::build_core: the program is loaded into the new core
BuildCore ==
    /\ warriors = <<>>
    /\ \E program \in IF config.core_size = BigCoreSize THEN BigPrograms ELSE TestPrograms :
           LoadWarrior(program)

\* a panic of the program
Panicked == [error |-> "Panic", offset |-> None]

\* the closure of Mul multiplies two fields whose product is no i32
mul_overflows_in(ex, opcode) ==
    /\ opcode = "MUL"
    /\ \E i \in DOMAIN FieldPairs(ex) : mul_overflows(FieldPairs(ex)[i].a, FieldPairs(ex)[i].b)

\* the closure of Div or Mod reaches `a / b` or `a % b` (it has not found
\* the field it tests to be zero) with the divisor b zero: i32 division
\* panics in every build
divides_by_zero_in(ex, opcode, m) ==
    /\ opcode \in {"DIV", "MOD"}
    /\ \E i \in DOMAIN FieldPairs(ex) :
           /\ ~field_flag(opcode, FieldPairs(ex)[i].a, FieldPairs(ex)[i].b, m)
           /\ FieldPairs(ex)[i].b = 0

\* opcode::execute in a build: with overflow checks the product that is no
\* i32 panics, without them it wraps; a division by zero panics in both
execute_built(cells, program_counter, m, build) ==
    IF \/ build = "debug"
          /\ mul_overflows_in(ExecutorNew(cells, program_counter, m),
                              cells[program_counter].opcode)
       \/ divides_by_zero_in(ExecutorNew(cells, program_counter, m),
                             cells[program_counter].opcode, m)
    THEN Failed(cells, Panicked)
    ELSE execute(cells, program_counter, m)

\* Core::program_counter, the helper of the tests
program_counter(q) == QueuePeek(q).entry.offset

\* one call of opcode::execute(&mut core, core.program_counter())
Execute(build) ==
    /\ pc = "load"
    /\ warriors # <<>>
    /\ \E result \in {execute_built(instructions, program_counter(process_queue),
                                    config.core_size, build)} :
           /\ instructions' = result.cells
           /\ executed' = Append(executed,
                  Trace(instructions[program_counter(process_queue)], result))
    /\ call' = [cells |-> instructions,
                program_counter |-> program_counter(process_queue)]
    /\ pc' = "executed"
    /\ UNCHANGED <<config, process_queue, steps_taken, warriors, results, step_result,
                   load_result, pushed, popped, pushed_at, queue_result, placement,
                   programs, args, chosen, calc, twin, evaluated>>

Executes == \E build \in Builds : Execute(build)

ExecNext == BuildCore \/ Executes

ExecSpec == ExecInit /\ [][ExecNext]_vars

(***************************************************************************)
(* A battle of one warrior, the Dwarf, in a core with the default          *)
(* configuration.                                                          *)
(***************************************************************************)
\* ADD #4, $3 ; MOV $2, @2 ; JMP $-2, $0 ; DAT #0, #0
Dwarf ==
    Program(<<Instruction("ADD", "AB", Field("#", 4), Field("$", 3)),
              Instruction("MOV", "I", Field("$", 2), Field("@", 2)),
              Instruction("JMP", "B", Field("$", -2), Field("$", 0)),
              Instruction("DAT", "F", Field("#", 0), Field("#", 0))>>, None)

\* CoreConfig::default
CoreConfigDefault ==
    [core_size |-> DEFAULT_CORE_SIZE, max_cycles |-> DEFAULT_MAX_CYCLES,
     max_processes |-> DEFAULT_MAX_PROCESSES,
     max_warrior_length |-> DEFAULT_MAX_WARRIOR_LENGTH,
     min_distance |-> DEFAULT_MIN_DISTANCE]

\* the default configuration, and the same with a run of a few cycles
DwarfConfigs ==
    {[CoreConfigDefault EXCEPT !.max_cycles = c] : c \in {MaxCycles, DEFAULT_MAX_CYCLES}}

DwarfInit ==
    /\ config \in DwarfConfigs
    /\ CoreFresh
    /\ pc = "load"

\* the one load_warrior call of the battle
LoadDwarf ==
    /\ warriors = <<>>
    /\ LoadWarrior(Dwarf)

DwarfNext == LoadDwarf \/ RunStart \/ RunStep \/ RunCycleCap \/ RunFinish

DwarfSpec == DwarfInit /\ [][DwarfNext]_vars

(***************************************************************************)
(* The battle of two copies of the Imp in a core of 200 cells with         *)
(* min_distance 100, loaded by two load_warrior calls or by one            *)
(* load_warriors call.                                                     *)
(***************************************************************************)
ImpsCoreSize == 200
ImpsMinDistance == 100

\* with min_distance 100 load_warriors has no cell to place the second
\* warrior at; with 98 it has the cell 198.  The longer run takes both Imps
\* once around the core, after which every cell is an Imp
ImpsConfigs ==
    {[core_size |-> ImpsCoreSize, max_cycles |-> c,
      max_processes |-> DEFAULT_MAX_PROCESSES, max_warrior_length |-> 1,
      min_distance |-> d] :
        c \in {MaxCycles, 2 * ImpsCoreSize + MaxCycles},
        d \in {ImpsMinDistance, ImpsMinDistance - 2}}

ImpsInit ==
    /\ config \in ImpsConfigs
    /\ CoreFresh
    /\ pc = "load"

LoadImp ==
    /\ load_result.error # "Panic"
    /\ LoadWarrior(Imp)

LoadImps == LoadWarriorsCall(<<Imp, Imp>>)

\* Core::run is entered after load_warriors has returned Ok
RunLoaded ==
    /\ pc = "loaded"
    /\ load_result.ok
    /\ pc' = "run"
    /\ results' = EmptyMap
    /\ UNCHANGED <<config, instructions, process_queue, steps_taken, warriors,
                   step_result, load_result, executed, pushed, popped, pushed_at,
                   queue_result, placement, programs, args, chosen, calc, call,
                   twin, evaluated>>

ImpsNext ==
    \/ LoadImp \/ LoadImps \/ LoadWarriorsNext
    \/ RunStart \/ RunLoaded \/ RunStep \/ RunCycleCap \/ RunFinish

ImpsSpec == ImpsInit /\ [][ImpsNext]_vars

(***************************************************************************)
(* Battles after either way of loading: load_warrior calls or one          *)
(* load_warriors call, with any list of warriors, the empty one too, and   *)
(* then run.                                                               *)
(***************************************************************************)
BattleNext ==
    \/ LoadNext
    \/ RunStart \/ RunLoaded \/ RunStep \/ RunCycleCap \/ RunFinish

BattleSpec == LoadInit /\ [][BattleNext]_vars

(***************************************************************************)
(* Core::step on its own: one step() call on a core built from a test      *)
(* program, which pops the entry of the warrior and executes the           *)
(* instruction at its program counter.                                     *)
(***************************************************************************)
StepOnce ==
    /\ pc = "load"
    /\ warriors # <<>>
    /\ \E s \in {step(instructions, process_queue, steps_taken, config.core_size)} :
           /\ instructions' = s.instructions
           /\ process_queue' = s.process_queue
           /\ steps_taken' = s.steps_taken
           /\ step_result' = s.result
           /\ popped' = popped \o s.popped
           /\ pushed' = pushed \o s.pushes
           /\ pushed_at' = pushed_at \o [i \in DOMAIN s.pushes |-> s.steps_taken]
           /\ executed' = executed \o s.executed
    /\ call' = [cells |-> instructions,
                program_counter |-> program_counter(process_queue)]
    /\ pc' = "stepped"
    /\ UNCHANGED <<config, warriors, results, load_result, queue_result, placement,
                   programs, args, chosen, calc, twin, evaluated>>

StepNext == BuildCore \/ StepOnce

StepSpec == ExecInit /\ [][StepNext]_vars

(***************************************************************************)
(* opcode::execute on instructions whose two operands go through the same  *)
(* cell, as in the test add_with_predecrement: the order in which the      *)
(* operands are resolved and latched shows in the result.                  *)
(***************************************************************************)
AddressModes == {"#", "$", "*", "@", "{", "<", "}", ">"}

\* op.md <ma>1, <mb>1 ; dat.f $a1, $b1
OrderProgram(op, md, ma, mb, a1, b1) ==
    Program(<<Instruction(op, md, Field(ma, 1), Field(mb, 1)),
              Instruction("DAT", "F", Field("$", a1), Field("$", b1))>>, None)

OrderPrograms ==
    {OrderProgram(op, md, ma, mb, a1, b1) :
        op \in {"ADD", "MOV"}, md \in Modifiers, ma \in AddressModes, mb \in AddressModes,
        a1 \in DataValues, b1 \in DataValues}

OrderInit ==
    /\ config \in {c \in ExecConfigs : c.core_size = ExecCoreSize}
    /\ CoreFresh
    /\ pc = "load"

BuildOrderCore ==
    /\ warriors = <<>>
    /\ \E program \in OrderPrograms : LoadWarrior(program)

OrderNext == BuildOrderCore \/ Executes

OrderSpec == OrderInit /\ [][OrderNext]_vars

(***************************************************************************)
(* opcode::execute on DIV and MOD as the tests execute_div and execute_mod *)
(* call it: the instruction, the cell of the A operand and the cell of the *)
(* B operand, in a core that holds the numbers of the tests.               *)
(***************************************************************************)
DivValues == {0, 1, 2, 4, 7, 8}

\* op.md $1, $2 ; dat #a1, #b1 ; dat #a2, #b2
DivProgram(op, md, a1, b1, a2, b2) ==
    Program(<<Instruction(op, md, Field("$", 1), Field("$", 2)),
              Instruction("DAT", "F", Field("#", a1), Field("#", b1)),
              Instruction("DAT", "F", Field("#", a2), Field("#", b2))>>, None)

DivPrograms ==
    {DivProgram(op, md, a1, b1, a2, b2) :
        op \in {"DIV", "MOD"}, md \in Modifiers,
        a1 \in DivValues, b1 \in DivValues, a2 \in DivValues, b2 \in DivValues}

DivInit ==
    /\ config = [core_size |-> DivCoreSize, max_cycles |-> MaxCycles,
                 max_processes |-> MaxProcesses,
                 max_warrior_length |-> MaxWarriorLength + 1, min_distance |-> 1]
    /\ CoreFresh
    /\ pc = "load"

BuildDivCore ==
    /\ warriors = <<>>
    /\ \E program \in DivPrograms : LoadWarrior(program)

DivNext == BuildDivCore \/ Executes

DivSpec == DivInit /\ [][DivNext]_vars

(***************************************************************************)
(* The queue as the core drives it (load_warrior, run) and as its tests    *)
(* drive it (push, pop and peek called directly), side by side.            *)
(***************************************************************************)
QueueCoreInit == Init \/ QueueInit

QueueCoreNext == Next \/ QueueNext

QueueCoreSpec == QueueCoreInit /\ [][QueueCoreNext]_vars

(***************************************************************************)
(* Battles of up to MaxWarriors + 1 warriors loaded by load_warrior calls: *)
(* with three warriors the battle goes on after the first of them has      *)
(* died.                                                                   *)
(***************************************************************************)
MeleeFighters == {Suicide, Imp, Loop, Splitter, DivZero, ForkDie, LateStart}

LoadMelee == \E warrior \in MeleeFighters : LoadWarriorOf(warrior, MaxWarriors + 1)

MeleeNext == LoadMelee \/ RunStart \/ RunStep \/ RunCycleCap \/ RunFinish

MeleeSpec == Init /\ [][MeleeNext]_vars

(***************************************************************************)
(* parser::phase::evaluation::expression: evaluate_product and             *)
(* evaluate_unary on the parse tree of a Product.  A UnaryExpr is the      *)
(* sequence of its UnaryOp pairs, in the order of the source text, and its *)
(* Number; a Product is a sequence of UnaryExpr pairs with a MultiplyOp    *)
(* pair between each two.                                                  *)
(***************************************************************************)
UnaryOps == {"-", "+", "!"}

MultiplyOps == {"*", "/", "%"}

Numbers == {0, 1, 2, 4, 24}

UnaryExpr(ops, number) == [ops |-> ops, number |-> number]

\* i32 `/` and `%`: the quotient is truncated toward zero
Abs(x) == IF x < 0 THEN -x ELSE x

i32_div(a, b) ==
    IF (a < 0) = (b < 0) THEN Abs(a) \div Abs(b) ELSE -(Abs(a) \div Abs(b))

i32_rem(a, b) == a - b * i32_div(a, b)

\* the closure evaluate_unary pushes for a UnaryOp, applied to x
unary_op(op, x) ==
    CASE op = "-" -> -x
      [] op = "!" -> IF x = 0 THEN 1 ELSE 0
      [] op = "+" -> x

\* `for op in unary_ops { result = result.map(op) }`
RECURSIVE apply_unary_ops(_, _)
apply_unary_ops(ops, result) ==
    IF ops = <<>>
    THEN result
    ELSE apply_unary_ops(Tail(ops), unary_op(Head(ops), result))

\* evaluate_unary: "+" pushes nothing, the other operators are pushed in the
\* order of the pairs and then applied in the order they were pushed
evaluate_unary(unary) ==
    apply_unary_ops(SelectSeq(unary.ops, LAMBDA op : op # "+"), unary.number)

\* the closure evaluate_product takes for a MultiplyOp
mul_op(op, a, b) ==
    CASE op = "*" -> a * b
      [] op = "/" -> i32_div(a, b)
      [] op = "%" -> i32_rem(a, b)

\* evaluate_product divides by an operand that is 0
RECURSIVE product_panics(_, _)
product_panics(result, rest) ==
    /\ rest # <<>>
    /\ \/ rest[1] \in {"/", "%"} /\ evaluate_unary(rest[2]) = 0
       \/ ~(rest[1] \in {"/", "%"} /\ evaluate_unary(rest[2]) = 0)
          /\ product_panics(mul_op(rest[1], result, evaluate_unary(rest[2])),
                            SubSeq(rest, 3, Len(rest)))

\* evaluate_product from the second pair on: result = mul_op(result, operand)
RECURSIVE fold_product(_, _)
fold_product(result, rest) ==
    IF rest = <<>>
    THEN result
    ELSE fold_product(mul_op(rest[1], result, evaluate_unary(rest[2])),
                      SubSeq(rest, 3, Len(rest)))

\* evaluate_product on the pairs <<UnaryExpr, MultiplyOp, UnaryExpr, ...>>
evaluate_product(pairs) ==
    IF product_panics(evaluate_unary(pairs[1]), Tail(pairs))
    THEN [tree |-> pairs, value |-> None, panicked |-> TRUE]
    ELSE [tree |-> pairs, value |-> fold_product(evaluate_unary(pairs[1]), Tail(pairs)),
          panicked |-> FALSE]

\* the chains of at most MaxUnaryOps unary operators
UnaryChains == UNION {[1..n -> UnaryOps] : n \in 0..MaxUnaryOps}

UnaryExprs == {UnaryExpr(ops, number) : ops \in UnaryChains, number \in Numbers}

PlainNumbers == {UnaryExpr(<<>>, number) : number \in Numbers}

\* a UnaryExpr; a UnaryExpr and a number; three numbers
Products ==
    {<<u>> : u \in UnaryExprs}
        \cup {<<u, op, n>> : u \in UnaryExprs, op \in MultiplyOps, n \in PlainNumbers}
        \cup {<<a, op1, b, op2, c>> :
                  a \in PlainNumbers, op1 \in MultiplyOps, b \in PlainNumbers,
                  op2 \in MultiplyOps, c \in PlainNumbers}

EvalInit ==
    /\ config = CoreConfigDefault
    /\ CoreFresh
    /\ pc = "parsed"

\* one call of the evaluator on a parse tree
Evaluate ==
    /\ pc = "parsed"
    /\ \E pairs \in Products : evaluated' = evaluate_product(pairs)
    /\ pc' = "evaluated"
    /\ UNCHANGED <<config, instructions, process_queue, steps_taken, warriors, results,
                   step_result, load_result, executed, pushed, popped, pushed_at,
                   queue_result, placement, programs, args, chosen, calc, call, twin>>

EvalNext == Evaluate

EvalSpec == EvalInit /\ [][EvalNext]_vars

(***************************************************************************)
(* Two cores built with the same configuration: the core of the battle and *)
(* `twin`, a second Core that is loaded by its own load_warrior calls and  *)
(* run by its own call of run().                                           *)
(***************************************************************************)
TwinFighters == {Suicide, Imp, Loop, Splitter, LateStart, TooLong}

\* Mutant: the warrior is given its id before its length is checked
load_warrior_id_before_check(core, warrior, cfg) ==
    IF too_long(warrior, cfg)
    THEN [core EXCEPT !.warriors = Append(core.warriors, Len(core.warriors))]
    ELSE LET warrior_id == Len(core.warriors)
             m == cfg.core_size
             origin == IF warrior.origin = None THEN 0 ELSE warrior.origin
         IN [core EXCEPT
                !.warriors = Append(core.warriors, warrior_id),
                !.instructions =
                    [i \in DOMAIN core.instructions |->
                        IF i < Len(warrior.instructions)
                        THEN normalize(warrior.instructions[i + 1], m)
                        ELSE core.instructions[i]],
                !.process_queue =
                    QueuePush(core.process_queue, warrior_id, offset(origin, m), None)]

\* Core::load_warrior on the fields of `core`: the core after the call
load_warrior(core, warrior, cfg) ==
    IF too_long(warrior, cfg)
    THEN core
    ELSE LET warrior_id == Len(core.warriors)
             m == cfg.core_size
             origin == IF warrior.origin = None THEN 0 ELSE warrior.origin
         IN [core EXCEPT
                !.warriors = Append(core.warriors, warrior_id),
                !.instructions =
                    [i \in DOMAIN core.instructions |->
                        IF i < Len(warrior.instructions)
                        THEN normalize(warrior.instructions[i + 1], m)
                        ELSE core.instructions[i]],
                !.process_queue =
                    QueuePush(core.process_queue, warrior_id, offset(origin, m), None)]

\* the battle's core is loaded while it is the only one
LoadFirst ==
    /\ twin = NoTwin
    /\ \E warrior \in TwinFighters : LoadWarriorOf(warrior, MaxWarriors)

TwinUnchanged ==
    UNCHANGED <<config, instructions, process_queue, steps_taken, warriors, results, pc,
                step_result, load_result, executed, pushed, popped, pushed_at,
                queue_result, placement, programs, args, chosen, calc, call, evaluated>>

\* Core::new with the configuration of the battle's core
TwinNew ==
    /\ pc = "load"
    /\ twin = NoTwin
    /\ twin' = [pc |-> "load",
                instructions |-> [i \in 0..(config.core_size - 1) |-> InstructionDefault],
                process_queue |-> QueueNew,
                steps_taken |-> 0,
                warriors |-> <<>>,
                results |-> EmptyMap,
                step_result |-> NoStep,
                programs |-> <<>>]
    /\ TwinUnchanged

\* Core::load_warrior on the twin; `programs` keeps what was loaded
TwinLoad ==
    /\ twin.pc = "load"
    /\ Len(twin.warriors) < MaxWarriors
    /\ \E warrior \in TwinFighters :
           twin' = [load_warrior(twin, warrior, config) EXCEPT
                       !.programs = IF too_long(warrior, config)
                                    THEN twin.programs
                                    ELSE Append(twin.programs, warrior)]
    /\ TwinUnchanged

\* the two cores have identical cells, queue and steps_taken
Identical ==
    /\ twin.instructions = instructions
    /\ twin.process_queue = process_queue
    /\ twin.steps_taken = steps_taken

\* Core::run is entered on the twin, the two cores being identical
TwinRunStart ==
    /\ pc = "load"
    /\ twin.pc = "load"
    /\ Identical
    /\ twin' = [twin EXCEPT !.pc = "run", !.results = EmptyMap]
    /\ TwinUnchanged

\* one iteration of the loop of Core::run on the twin
TwinStep ==
    /\ twin.pc = "run"
    /\ twin.steps_taken < config.max_cycles
    /\ \E s \in {step(twin.instructions, twin.process_queue, twin.steps_taken,
                       config.core_size)} :
           LET res == results_after(twin.results, s.result)
           IN twin' = [pc |-> after_step(s.result, twin.warriors, res),
                       instructions |-> s.instructions,
                       process_queue |-> s.process_queue,
                       steps_taken |-> s.steps_taken,
                       warriors |-> twin.warriors,
                       results |-> res,
                       step_result |-> s.result,
                       programs |-> twin.programs]
    /\ TwinUnchanged

\* the loop condition of Core::run fails on the twin
TwinCycleCap ==
    /\ twin.pc = "run"
    /\ ~(twin.steps_taken < config.max_cycles)
    /\ twin' = [twin EXCEPT !.pc = "finish"]
    /\ TwinUnchanged

\* after the loop of Core::run on the twin
TwinFinish ==
    /\ twin.pc = "finish"
    /\ twin' = [twin EXCEPT !.pc = "done",
                            !.results = final_results(twin.warriors, twin.results)]
    /\ TwinUnchanged

TwinNext ==
    \/ LoadFirst
    \/ TwinNew
    \/ TwinLoad
    \/ TwinRunStart
    \/ TwinStep
    \/ TwinCycleCap
    \/ TwinFinish
    \/ RunStart
    \/ RunStep
    \/ RunCycleCap
    \/ RunFinish

TwinSpec == Init /\ [][TwinNext]_vars

(***************************************************************************)
(* Helpers of the properties                                               *)
(***************************************************************************)
\* the number of entries of warrior w in the sequence of entries es
ThreadsOf(es, w) == Cardinality({i \in DOMAIN es : es[i].id = w})

RECURSIVE SumOver(_, _)
SumOver(f, keys) ==
    IF keys = {}
    THEN 0
    ELSE LET k == CHOOSE x \in keys : TRUE IN f[k] + SumOver(f, keys \ {k})

Last(seq) == seq[Len(seq)]

\* the transition is a step() call that popped an entry
StepPopped == Len(popped') = Len(popped) + 1 /\ pc = "run"

(***************************************************************************)
(* C1: in every state reached by loading warriors and stepping, the count  *)
(* kept for each warrior equals the number of queue entries of that        *)
(* warrior, every queued warrior has a count, and the counts add up to the *)
(* length of the queue.                                                    *)
(***************************************************************************)
C1_ThreadCounts ==
    /\ \A i \in DOMAIN process_queue.queue :
           process_queue.queue[i].id \in DOMAIN process_queue.processes
    /\ \A w \in DOMAIN process_queue.processes :
           process_queue.processes[w] = ThreadsOf(process_queue.queue, w)
    /\ SumOver(process_queue.processes, DOMAIN process_queue.processes)
           = Len(process_queue.queue)

\* two warriors are loaded, steps have split and killed threads, and one
\* warrior holds several threads
C1_Witness ==
    /\ Len(warriors) = 2
    /\ \E i \in DOMAIN executed : executed[i].should_split
    /\ \E i \in DOMAIN executed : executed[i].err # NoError
    /\ \E w \in DOMAIN process_queue.processes : ThreadsOf(process_queue.queue, w) >= 2

(***************************************************************************)
(* C2: a step whose instruction ends in a task error (ExecuteDat of the    *)
(* popped offset, or DivideByZero) leaves the queue as it was without its  *)
(* head; it reports the error as the warrior's loss exactly when no entry  *)
(* of that warrior is left in the queue, and reports no loss otherwise.    *)
(***************************************************************************)
C2_TaskError ==
    [][(StepPopped /\ Last(executed').err # NoError) =>
          LET dead == Head(process_queue.queue)
              err == Last(executed').err
              left == ThreadsOf(Tail(process_queue.queue), dead.id)
          IN /\ err \in {ExecuteDat(dead.offset), DivideByZero}
             /\ process_queue'.queue = Tail(process_queue.queue)
             /\ left = 0 => /\ step_result' = Continue(dead.id, err)
                            /\ results' = MapPut(results, dead.id, Loss(err))
             /\ left > 0 => /\ step_result' = Continue(dead.id, NoError)
                            /\ results' = results]_vars

\* one warrior lost a thread while another of its threads lived, and later
\* lost its last thread and was given the loss
C2_Witness ==
    \E i, j \in DOMAIN executed :
        /\ i < j
        /\ popped[i].id = popped[j].id
        /\ executed[i].err # NoError
        /\ executed[j].err # NoError
        /\ popped[j].id \in DOMAIN results
        /\ results[popped[j].id] = Loss(executed[j].err)
        /\ ThreadsOf(process_queue.queue, popped[j].id) = 0

(***************************************************************************)
(* C3: no warrior ever has more than max_processes entries in the queue,   *)
(* so the queue never holds more than num_warriors * max_processes         *)
(* entries.                                                                *)
(***************************************************************************)
C3_ThreadCap ==
    /\ \A w \in DOMAIN process_queue.processes :
           ThreadsOf(process_queue.queue, w) <= config.max_processes
    /\ Len(process_queue.queue) <= Len(warriors) * config.max_processes

(***************************************************************************)
(* C4: the queue is first-in first-out across all warriors.  Over any      *)
(* sequence of push, pop and peek calls the entries popped so far followed *)
(* by the entries still queued are the entries pushed, in the order of the *)
(* pushes; a pop returns the oldest queued entry; a peek returns that same *)
(* entry and changes nothing; on an empty queue both return                *)
(* NoRemainingProcesses.                                                   *)
(***************************************************************************)
C4_Fifo ==
    [][/\ popped' \o process_queue'.queue = pushed'
       /\ queue_result'.op = "pop" /\ process_queue.queue # <<>> =>
              /\ queue_result'.res = "Ok"
              /\ queue_result'.entry = pushed[Len(popped) + 1]
              /\ popped' = Append(popped, queue_result'.entry)
       /\ queue_result'.op = "peek" /\ process_queue.queue # <<>> =>
              /\ queue_result'.res = "Ok"
              /\ queue_result'.entry = pushed[Len(popped) + 1]
              /\ queue_result'.entry = QueuePop(process_queue').entry
              /\ process_queue' = process_queue
       /\ queue_result'.op \in {"pop", "peek"} /\ process_queue.queue = <<>> =>
              /\ queue_result'.res = "Err"
              /\ queue_result'.error = NoRemainingProcesses
              /\ process_queue' = process_queue
              /\ popped' = popped]_vars

\* entries of two warriors were pushed and popped in turn, the last call was
\* a peek at a non-empty queue, and pushes came after a pop
C4_Witness ==
    /\ pc = "queue"
    /\ Len(popped) >= 2
    /\ popped[1].id # popped[2].id
    /\ Len(process_queue.queue) >= 2
    /\ queue_result.op = "peek"
    /\ queue_result.res = "Ok"

(***************************************************************************)
(* C5: a step that executes an SPL at offset PC for thread t appends two   *)
(* entries of the same warrior behind the rest of the queue: first         *)
(* (PC + 1, t), then (PC + jump, n), where jump is the A-pointer relative  *)
(* to PC and n is a thread id never given to that warrior before.          *)
(***************************************************************************)
C5_SplitOrder ==
    [][(StepPopped /\ Last(executed').instruction.opcode = "SPL") =>
          LET m == config.core_size
              cur == Head(process_queue.queue)
              a_ptr == ResolvePointer(instructions, cur.offset,
                                      instructions[cur.offset].a_field, m).ptr
              n == Last(process_queue'.queue).thread
          IN /\ Len(process_queue'.queue) = Len(process_queue.queue) + 1
             /\ process_queue'.queue =
                    Tail(process_queue.queue) \o
                        <<Entry(cur.id, cur.thread, (cur.offset + 1) % m),
                          Entry(cur.id, n, a_ptr)>>
             /\ \A i \in DOMAIN pushed : pushed[i].id = cur.id => pushed[i].thread # n
             /\ n # cur.thread]_vars

\* a warrior split twice, with another warrior's entry in the queue
C5_Witness ==
    /\ Len(warriors) = 2
    /\ \E i, j \in DOMAIN executed :
           /\ i < j
           /\ executed[i].should_split
           /\ executed[j].should_split
           /\ popped[i].id = popped[j].id
           /\ popped[i].thread # popped[j].thread
    /\ \E i, j \in DOMAIN process_queue.queue :
           process_queue.queue[i].id # process_queue.queue[j].id

(***************************************************************************)
(* C6: scheduling is round robin.  The i-th entry executed is the i-th     *)
(* entry enqueued, so whenever step i executes an entry, every entry that  *)
(* was queued at that moment is executed, once, before any entry that      *)
(* step i enqueued.                                                        *)
(***************************************************************************)
C6_RoundRobin ==
    /\ Len(popped) <= Len(pushed)
    /\ \A i \in DOMAIN popped : popped[i] = pushed[i]
    /\ \A i \in DOMAIN popped : \A j, k \in DOMAIN pushed :
           (/\ pushed_at[k] = i      \* k was enqueued by step i
            /\ j > i                 \* j was still queued when step i popped
            /\ pushed_at[j] < i
            /\ k <= Len(popped))     \* k has been executed
           => j < k                  \* then j was executed before it

\* threads of two warriors, some of them made by a split, have each been
\* executed after the entries that were queued before them
C6_Witness ==
    /\ Len(warriors) = 2
    /\ Len(popped) >= 5
    /\ \E i \in DOMAIN executed : executed[i].should_split
    /\ \E i, j \in DOMAIN popped : popped[i].id # popped[j].id
    /\ \E i \in DOMAIN popped : \E j, k \in DOMAIN pushed :
           pushed_at[k] = i /\ j > i /\ pushed_at[j] < i /\ k <= Len(popped)

(***************************************************************************)
(* History of a battle, read from the entries pushed and popped            *)
(***************************************************************************)
\* the number of entries warrior w had in the queue right after step i
\* (push k was made by step pushed_at[k], 0 meaning the loader)
LiveAfter(w, i) ==
    Cardinality({k \in DOMAIN pushed : pushed[k].id = w /\ pushed_at[k] <= i})
        - Cardinality({j \in 1..i : popped[j].id = w})

\* step i killed the last thread of warrior w
DiedAt(w, i) ==
    /\ i \in DOMAIN executed
    /\ popped[i].id = w
    /\ executed[i].err # NoError
    /\ LiveAfter(w, i) = 0

Loaded == {warriors[i] : i \in DOMAIN warriors}

Dead == {w \in Loaded : \E i \in DOMAIN executed : DiedAt(w, i)}

(***************************************************************************)
(* C7: run() terminates; steps_taken never exceeds max_cycles; and the     *)
(* loop makes no further step() call once steps_taken has reached          *)
(* max_cycles, once a step has returned Halt, or once, with two or more    *)
(* warriors, at most one warrior is not marked Loss.                       *)
(***************************************************************************)
NotMarkedLoss == {w \in Loaded : w \notin DOMAIN results}

C7_RunTerminates ==
    /\ <>(pc = "done")
    /\ [](steps_taken <= config.max_cycles)
    \* the loop is at its head only while no step returned Halt and, with two
    \* or more warriors, at least two are not marked Loss
    /\ [](pc = "run" =>
              /\ step_result.kind # "Halt"
              /\ Len(warriors) > 1 => Cardinality(NotMarkedLoss) > 1)
    \* a step() call is made only while steps_taken < max_cycles
    /\ [][steps_taken' # steps_taken \/ step_result' # step_result
              \/ popped' # popped =>
              pc = "run" /\ steps_taken < config.max_cycles]_vars
    \* the loop is left only for one of the three reasons
    /\ [][pc = "run" /\ pc' = "finish" =>
              \/ steps_taken' = config.max_cycles
              \/ step_result'.kind = "Halt" /\ process_queue.queue = <<>>
              \/ Len(warriors) > 1 /\ Cardinality(NotMarkedLoss') <= 1]_vars

\* a battle of two warriors ended at the cycle cap with both alive
C7_Witness ==
    /\ pc = "done"
    /\ Len(warriors) = 2
    /\ steps_taken = config.max_cycles
    /\ config.max_cycles = MaxCycles
    /\ step_result.kind = "Continue"
    /\ Dead = {}

(***************************************************************************)
(* C8: when run() returns, a warrior whose last thread died holds the      *)
(* Loss(cause) of the step that killed it; every other loaded warrior is   *)
(* Tie if two or more such warriors remain and Win if it is the only one.  *)
(***************************************************************************)
C8_FinalResults ==
    pc = "done" =>
        \A w \in Loaded :
            /\ w \in DOMAIN results
            /\ w \in Dead => \E i \in DOMAIN executed :
                                 DiedAt(w, i) /\ results[w] = Loss(executed[i].err)
            /\ w \notin Dead =>
                   results[w] = IF Cardinality(Loaded \ Dead) >= 2 THEN Tie ELSE Win

\* a battle of two ended with one warrior dead and the other the winner
C8_Witness ==
    /\ pc = "done"
    /\ Len(warriors) = 2
    /\ \E w, v \in Loaded : w \in Dead /\ results[w].kind = "Loss" /\ results[v] = Win

(***************************************************************************)
(* C9: whatever the number of warriors, one included, a warrior whose last *)
(* thread died is reported Loss by run(), never Win or Tie; the lone       *)
(* warrior `DAT #0, #0` gives steps_taken = 1 and Loss(ExecuteDat(0)), 0   *)
(* being where it was placed.                                              *)
(***************************************************************************)
SuicideAlone ==
    /\ Len(warriors) = 1
    /\ Len(popped) >= 1
    /\ popped[1].offset = 0
    /\ executed[1].instruction = normalize(Suicide.instructions[1], config.core_size)

C9_DeadWarriorLoses ==
    pc = "done" =>
        /\ \A w \in Loaded :
               ThreadsOf(process_queue.queue, w) = 0 =>
                   w \in DOMAIN results /\ results[w].kind = "Loss"
        /\ SuicideAlone => steps_taken = 1 /\ results[0] = Loss(ExecuteDat(0))

\* the lone warrior `DAT #0, #0` has run to the end
C9_Witness == pc = "done" /\ SuicideAlone /\ process_queue.queue = <<>>

(***************************************************************************)
(* C10: steps_taken never decreases; a step() that pops an entry adds      *)
(* exactly 1 to it, whether the task continues, splits or dies; a step()   *)
(* on an empty queue returns Halt and leaves steps_taken as it was.        *)
(***************************************************************************)
C10_StepsTaken ==
    [][/\ steps_taken' >= steps_taken
       /\ StepPopped => steps_taken' = steps_taken + 1
       /\ process_queue'.queue # process_queue.queue /\ pc = "run" =>
              steps_taken' = steps_taken + 1
       /\ (pc = "run" /\ steps_taken < config.max_cycles /\ process_queue.queue = <<>>) =>
              /\ steps_taken' = steps_taken
              /\ step_result' = Halt
       /\ steps_taken' = steps_taken + 1 =>
              step_result'.kind = "Continue" /\ StepPopped]_vars

\* a battle in which a task split, tasks continued, tasks died, and the
\* last step() found the queue empty
C10_Witness ==
    /\ step_result = Halt
    /\ steps_taken = Len(popped)
    /\ \E i \in DOMAIN executed : executed[i].should_split
    /\ \E i \in DOMAIN executed : executed[i].err # NoError
    /\ \E i \in DOMAIN executed :
           executed[i].err = NoError /\ ~executed[i].should_split

(***************************************************************************)
(* C11: a task error never aborts the battle.  The step in which a thread  *)
(* dies leaves every other queue entry in the queue, in the same order,    *)
(* with the same offset and thread id; and the step() after it, when the   *)
(* queue is not empty, executes the entry at the head of the queue and     *)
(* returns Continue for it, never Halt.                                    *)
(***************************************************************************)
C11_ErrorKeepsOthers ==
    [][/\ (StepPopped /\ Last(executed').err # NoError) =>
              /\ process_queue'.queue = Tail(process_queue.queue)
              /\ step_result'.kind = "Continue"
       /\ (/\ pc = "run"
           /\ executed # <<>>
           /\ Last(executed).err # NoError
           /\ process_queue.queue # <<>>
           /\ steps_taken' # steps_taken) =>
              /\ step_result'.kind = "Continue"
              /\ step_result'.id = Head(process_queue.queue).id
              /\ Last(popped') = Head(process_queue.queue)
              /\ Len(executed') = Len(executed) + 1]_vars

\* a thread died while threads of its own warrior and of another warrior were
\* queued, and the next step executed the next entry
C11_Witness ==
    \E i \in DOMAIN executed :
        /\ executed[i].err # NoError
        /\ i < Len(popped)
        /\ LiveAfter(popped[i].id, i) > 0
        /\ \E w \in Loaded : w # popped[i].id /\ LiveAfter(w, i) > 0
        /\ popped[i + 1] = pushed[i + 1]

(***************************************************************************)
(* C12: after loading, every loaded warrior w has exactly one entry in the *)
(* queue; its thread id is 0 and its offset is                             *)
(* (placement(w) + origin(w)) mod core_size, the origin being 0 when the   *)
(* program has none.                                                       *)
(***************************************************************************)
OriginOf(program) == IF program.origin = None THEN 0 ELSE program.origin

EntriesOf(w) == {i \in DOMAIN process_queue.queue : process_queue.queue[i].id = w}

C12_OneEntryPerWarrior ==
    /\ Len(process_queue.queue) = Len(warriors)
    /\ Len(placement) = Len(warriors)
    /\ \A w \in Loaded :
           /\ Cardinality(EntriesOf(w)) = 1
           /\ \A i \in EntriesOf(w) :
                  /\ process_queue.queue[i].thread = 0
                  /\ process_queue.queue[i].offset =
                         (placement[w + 1] + OriginOf(programs[w + 1])) % config.core_size

\* load_warriors has loaded two warriors, the second away from cell 0 and
\* with an origin that wraps around the core
C12_Witness ==
    /\ pc = "loaded"
    /\ load_result = Ok(None)
    /\ Len(warriors) = 2
    /\ placement[2] > 0
    /\ programs[2] = FarStart
    /\ programs[1] = LateStart

(***************************************************************************)
(* C13: loading a warrior of length L at placement p writes its            *)
(* instructions, in order, into the cells p .. p+L-1, each with the value  *)
(* of its A-field and of its B-field replaced by the Euclidean remainder   *)
(* modulo core_size and nothing else changed (`jmp $-1` is stored with     *)
(* core_size - 1).  Every cell outside p .. p+L-1 is left as it was, which *)
(* on a new core is the default instruction.                               *)
(***************************************************************************)
WarriorLoaded == Len(warriors') = Len(warriors) + 1

C13_LoadCopies ==
    [][WarriorLoaded =>
          LET program == Last(programs').instructions
              p == Last(placement')
              L == Len(program)
              m == config.core_size
          IN /\ \A k \in 0..(L - 1) :
                    /\ instructions'[p + k].opcode = program[k + 1].opcode
                    /\ instructions'[p + k].modifier = program[k + 1].modifier
                    /\ instructions'[p + k].a_field.address_mode =
                           program[k + 1].a_field.address_mode
                    /\ instructions'[p + k].b_field.address_mode =
                           program[k + 1].b_field.address_mode
                    /\ instructions'[p + k].a_field.value \in 0..(m - 1)
                    /\ instructions'[p + k].b_field.value \in 0..(m - 1)
                    /\ \E n \in -2..2 :
                           instructions'[p + k].a_field.value =
                               program[k + 1].a_field.value + n * m
                    /\ \E n \in -2..2 :
                           instructions'[p + k].b_field.value =
                               program[k + 1].b_field.value + n * m
             /\ \A i \in DOMAIN instructions :
                    (i < p \/ i >= p + L) =>
                        /\ instructions'[i] = instructions[i]
                        /\ warriors = <<>> => instructions'[i] = InstructionDefault]_vars

\* the two instructions of `SPL $0, $0 ; JMP $-1, $0` stand at a placement
\* other than 0, the -1 stored as core_size - 1, behind another warrior
C13_Witness ==
    /\ Len(warriors) = 2
    /\ programs[2] = Splitter
    /\ placement[2] > 0
    /\ instructions[placement[2] + 1] =
           Instruction("JMP", "B", Field("$", config.core_size - 1), Field("$", 0))
    /\ instructions[placement[2] + 2] = InstructionDefault

(***************************************************************************)
(* C14: loading a warrior with more than max_warrior_length instructions   *)
(* fails with WarriorTooLong and changes nothing in the core: no cell is   *)
(* written, no queue entry is added and no warrior id is registered.  No   *)
(* such warrior is ever loaded.                                            *)
(***************************************************************************)
\* the warrior the transition tries to load: the argument of load_warrior,
\* or the next warrior of the list given to load_warriors
LoadingTooLong ==
    \/ /\ pc = "load" /\ pc' = "load"
       /\ Len(args') = 1
       /\ Len(args'[1].instructions) > config.max_warrior_length
    \/ /\ pc = "loading"
       /\ Len(args[Len(warriors) + 1].instructions) > config.max_warrior_length

C14_TooLongRejected ==
    [][/\ LoadingTooLong =>
              /\ load_result' = Err("WarriorTooLong")
              /\ instructions' = instructions
              /\ process_queue' = process_queue
              /\ warriors' = warriors
              /\ pushed' = pushed
       /\ WarriorLoaded =>
              Len(Last(programs').instructions) <= config.max_warrior_length]_vars

\* load_warrior refused a warrior of max_warrior_length + 1 instructions
\* after it had loaded another one, whose cells and queue entry are in place
C14_Witness ==
    /\ pc = "load"
    /\ load_result = Err("WarriorTooLong")
    /\ Len(args) = 1
    /\ Len(args[1].instructions) = config.max_warrior_length + 1
    /\ warriors = <<0>>
    /\ Len(process_queue.queue) = 1
    /\ instructions[0] # InstructionDefault

(***************************************************************************)
(* C15: once two or more warriors are loaded, the cells occupied by any    *)
(* two of them do not overlap, and their placements are at least           *)
(* min_distance cells apart, measured around the circular core.            *)
(***************************************************************************)
CellsOf(w) ==
    {(placement[w + 1] + k) % config.core_size :
        k \in 0..(Len(programs[w + 1].instructions) - 1)}

CircularDistance(p, q, m) ==
    IF (p - q) % m <= (q - p) % m THEN (p - q) % m ELSE (q - p) % m

C15_Placement ==
    (Len(warriors) >= 2 /\ load_result.ok) =>
        \A w, v \in Loaded :
            w # v =>
                /\ CellsOf(w) \cap CellsOf(v) = {}
                /\ CircularDistance(placement[w + 1], placement[v + 1], config.core_size)
                       >= config.min_distance

(***************************************************************************)
(* C16: load_warriors with n >= 1 warriors fails with MinDistanceTooLarge  *)
(* exactly when core_size / n < min_distance.  When core_size / n >=       *)
(* min_distance and no warrior is longer than max_warrior_length, it       *)
(* succeeds, and every warrior i >= 1 is placed inside its range           *)
(* [i * spacing + min_distance, (i + 1) * spacing - max_warrior_length),   *)
(* which is not empty.                                                     *)
(***************************************************************************)
C16_MinDistance ==
    (pc = "loaded" /\ Len(args) >= 1) =>
        LET n == Len(args)
            fits == \A i \in 1..n :
                        Len(args[i].instructions) <= config.max_warrior_length
        IN /\ load_result = Err("MinDistanceTooLarge")
                  <=> config.core_size \div n < config.min_distance
           /\ (config.core_size \div n >= config.min_distance /\ fits) =>
                  /\ load_result = Ok(None)
                  /\ Len(placement) = n
                  /\ \A i \in 1..(n - 1) :
                         /\ placement[i + 1] >=
                                i * (config.core_size \div n) + config.min_distance
                         /\ placement[i + 1] <
                                (i + 1) * (config.core_size \div n)
                                    - config.max_warrior_length

(***************************************************************************)
(* C17: every Offset value lies in 0 .. modulus - 1: the result of         *)
(* Offset::new on any signed input, the result of every add, sub, mul, div *)
(* and rem that returns, the offset of every queue entry, and the A- and   *)
(* B-field value of every cell of the core, in every state reached by      *)
(* loading and stepping.                                                   *)
(***************************************************************************)
C17_OffsetInRange ==
    /\ calc.outcome = "Ok" => calc.result \in 0..(calc.modulus - 1)
    /\ \A i \in DOMAIN process_queue.queue :
           process_queue.queue[i].offset \in 0..(config.core_size - 1)
    /\ \A i \in DOMAIN instructions :
           /\ instructions[i].a_field.value \in 0..(config.core_size - 1)
           /\ instructions[i].b_field.value \in 0..(config.core_size - 1)

\* in a battle a SUB has taken a B-field of 0 below zero, and the program
\* counter has wrapped around the end of the core
C17_Witness ==
    /\ pc = "run"
    /\ \E i \in DOMAIN executed : executed[i].instruction.opcode = "SUB"
    /\ instructions[1].b_field.value = config.core_size - 1
    /\ \E i \in DOMAIN popped : i > 1 /\ popped[i].offset < popped[i - 1].offset

(***************************************************************************)
(* C18: for Offsets a and b of one modulus m, (a op b).value is the        *)
(* Euclidean remainder modulo m of a.value op b.value, for op among +, -,  *)
(* *, / and % (b.value not 0 for / and %); an operation with an i32 k      *)
(* gives what the operation with Offset::new(k, m) gives; and each         *)
(* compound assignment gives what its binary operator gives.               *)
(***************************************************************************)
\* the Euclidean remainder modulo m of x * y, for x and y in 0 .. 2^16 - 1,
\* worked out without a number beyond 2^31
ExactMulMod(x, y, m) == (((x * (y \div 256)) % m) * 256 + x * (y % 256)) % m

\* the Euclidean remainder modulo m of x op y
ExactOp(op, x, y, m) ==
    CASE op = "add" -> (x + y) % m
      [] op = "sub" -> (x - y) % m
      [] op = "mul" -> ExactMulMod(x, y, m)
      [] op = "div" -> (x \div y) % m
      [] op = "rem" -> (x % y) % m

C18_OffsetArithmetic ==
    calc.op \in OffsetOps =>
        LET m == calc.modulus
            x == calc.a
            \* the value of b, or of Offset::new(k, m) for the i32 k
            y == CHOOSE v \in 0..(m - 1) : \E n \in -3..3 : v = calc.b + n * m
        IN ~(calc.op \in {"div", "rem"} /\ y = 0) =>
               /\ calc.outcome = "Ok"
               /\ calc.result = ExactOp(calc.op, x, y, m)

(***************************************************************************)
(* C19: the Imp `MOV $0, $1`, loaded alone at cell 0 of a core of N cells. *)
(* After k steps steps_taken is k and the one entry of the queue is at     *)
(* k mod N (0 again after N steps, 1 after N + 1); no task has died; every *)
(* cell up to the entry is `MOV.I $0, $1`, and so is every cell of the     *)
(* core once N steps are made.                                             *)
(***************************************************************************)
Running == pc \in {"run", "finish", "done"}

ImpCell == Instruction("MOV", "I", Field("$", 0), Field("$", 1))

C19_ImpWalks ==
    (Running /\ programs = <<Imp>> /\ placement = <<0>>) =>
        LET N == config.core_size
            k == Len(popped)
        IN /\ steps_taken = k
           /\ process_queue.queue = <<Entry(0, 0, k % N)>>
           /\ \A i \in DOMAIN executed : executed[i].err = NoError
           /\ \A w \in DOMAIN results : results[w].kind # "Loss"
           /\ \A i \in DOMAIN instructions :
                  (i <= k \/ k >= N) => instructions[i] = ImpCell
           /\ \A i \in DOMAIN instructions :
                  (i > k /\ k < N) => instructions[i] = InstructionDefault
           /\ pc \in {"finish", "done"} => k = config.max_cycles

\* the Imp has made N + 1 steps: it stands at cell 1 of a core full of Imps
C19_Witness ==
    /\ Running
    /\ programs = <<Imp>>
    /\ steps_taken = config.core_size + 1
    /\ process_queue.queue = <<Entry(0, 0, 1)>>
    /\ \A i \in DOMAIN instructions : instructions[i] = ImpCell
    /\ popped[config.core_size + 1].offset = 0

(***************************************************************************)
(* C20: a lone warrior that is a JMP with A-pointer 0 (`JMP $0`) never     *)
(* dies and never moves: every step returns Continue without an error and  *)
(* puts the same offset back in the queue, and run() returns with          *)
(* steps_taken = max_cycles and the warrior not marked Loss.               *)
(***************************************************************************)
C20_SelfLoop ==
    (Running /\ programs = <<Loop>>) =>
        /\ process_queue.queue = <<Entry(0, 0, 0)>>
        /\ steps_taken = Len(popped)
        /\ \A i \in DOMAIN popped : popped[i] = Entry(0, 0, 0)
        /\ \A i \in DOMAIN executed : executed[i].err = NoError
        /\ step_result \in {NoStep, Continue(0, NoError)}
        /\ steps_taken > 0 => step_result = Continue(0, NoError)
        /\ pc \in {"finish", "done"} => steps_taken = config.max_cycles
        /\ \A w \in DOMAIN results : results[w].kind # "Loss"
        /\ pc = "done" => results = MapPut(EmptyMap, 0, Win)

\* run() has returned for the lone `JMP $0` after max_cycles steps
C20_Witness ==
    /\ pc = "done"
    /\ programs = <<Loop>>
    /\ config.max_cycles = MaxCycles
    /\ steps_taken = MaxCycles
    /\ Len(popped) = MaxCycles

(***************************************************************************)
(* Helpers of the properties of opcode::execute                            *)
(***************************************************************************)
\* execute was called directly and has returned
Called == pc = "executed"

\* the instruction execute was called on, and what the call gave back
CalledOn == call.cells[call.program_counter]
Outcome == Last(executed)

\* the core after the predecrement or postincrement of one operand field of
\* the instruction at p
AfterOperand(cells, p, field, m) ==
    LET at == (p + field.value) % m
        delta == CASE field.address_mode \in {"{", "<"} -> -1
                   [] field.address_mode \in {"}", ">"} -> 1
                   [] OTHER -> 0
        old == IF field.address_mode \in {"{", "}"}
               THEN cells[at].a_field.value ELSE cells[at].b_field.value
        new == (old + delta) % m
    IN IF delta = 0
       THEN cells
       ELSE IF field.address_mode \in {"{", "}"}
            THEN [cells EXCEPT ![at].a_field.value = new]
            ELSE [cells EXCEPT ![at].b_field.value = new]

\* the core after the side effects of both operands, A first
AfterOperands(cells, p, m) ==
    AfterOperand(AfterOperand(cells, p, cells[p].a_field, m), p, cells[p].b_field, m)

(***************************************************************************)
(* C21: executing a DAT at offset pc always fails the task with            *)
(* ExecuteDat(pc), and the core then holds the predecrement and            *)
(* postincrement side effects of its A and its B operand (and no other     *)
(* change).                                                                *)
(***************************************************************************)
C21_DatFails ==
    (Called /\ CalledOn.opcode = "DAT") =>
        /\ Outcome.err = ExecuteDat(call.program_counter)
        /\ instructions = AfterOperands(call.cells, call.program_counter, config.core_size)

\* `dat >2, >1` at cell 1 failed with ExecuteDat(1) and has incremented the
\* B-fields of the cells 3 and 2, which held 0
C21_Witness ==
    /\ Called
    /\ call.program_counter = 1
    /\ CalledOn = Instruction("DAT", "F", Field(">", 2), Field(">", 1))
    /\ call.cells[2].b_field.value = 0
    /\ call.cells[3].b_field.value = 0
    /\ Outcome.err = ExecuteDat(1)
    /\ instructions[2].b_field.value = 1
    /\ instructions[3].b_field.value = 1

\* the Executor of the call: the operand cells it latched and the pointers
Latched == ExecutorNew(call.cells, call.program_counter, config.core_size)

\* the latched values: the A and B numbers of the A operand and of the B
\* operand
OperandA == [a |-> Latched.a_instruction.a_field.value,
             b |-> Latched.a_instruction.b_field.value]
OperandB == [a |-> Latched.b_instruction.a_field.value,
             b |-> Latched.b_instruction.b_field.value]

\* the core after the call when it writes x and y into the A- and the
\* B-field of the B-target (None: the field is not written)
Written(x, y) ==
    LET cells == AfterOperands(call.cells, call.program_counter, config.core_size)
    IN [cells EXCEPT ![Latched.b_ptr] =
            [@ EXCEPT !.a_field.value = IF x = None THEN @ ELSE x,
                      !.b_field.value = IF y = None THEN @ ELSE y]]

\* with a two-field modifier: the number of the A operand that meets the
\* A-field, and the one that meets the B-field, of the B operand
MeetsA == IF CalledOn.modifier = "X" THEN OperandA.b ELSE OperandA.a
MeetsB == IF CalledOn.modifier = "X" THEN OperandA.a ELSE OperandA.b

TwoFields == {"F", "X", "I"}

Divided(opcode, x, y) ==
    IF y = 0 THEN None ELSE IF opcode = "DIV" THEN x \div y ELSE x % y

(***************************************************************************)
(* C22: DIV and MOD with a two-field modifier work out each side on its    *)
(* own.  A side whose divisor (the field of the B operand) is 0 leaves its *)
(* field of the target unwritten, a side with another divisor writes its   *)
(* quotient or remainder; the task fails with DivideByZero exactly when a  *)
(* side had the divisor 0, and otherwise the instruction succeeds without  *)
(* setting a PC offset.                                                    *)
(***************************************************************************)
C22_DivByZeroSides ==
    (Called /\ CalledOn.opcode \in {"DIV", "MOD"} /\ CalledOn.modifier \in TwoFields) =>
        /\ instructions = Written(Divided(CalledOn.opcode, MeetsA, OperandB.a),
                                  Divided(CalledOn.opcode, MeetsB, OperandB.b))
        /\ Outcome.err = IF OperandB.a = 0 \/ OperandB.b = 0 THEN DivideByZero ELSE NoError
        /\ Outcome.program_counter_offset = None

\* `div.f $2, $1` on the divisor (0, 4) and the dividend (_, 4): the task
\* fails with DivideByZero and the B-field of the target is 1 all the same
C22_Witness ==
    /\ Called
    /\ CalledOn = Instruction("DIV", "F", Field("$", 2), Field("$", 1))
    /\ OperandB = [a |-> 0, b |-> config.core_size - 1]
    /\ OperandA.b = config.core_size - 1
    /\ Outcome.err = DivideByZero
    /\ instructions[Latched.b_ptr].a_field.value = 0
    /\ instructions[Latched.b_ptr].b_field.value = 1

\* the number of the A operand the modifier brings to the A-field, and to
\* the B-field, of the B-target (None: the modifier leaves that field alone)
BroughtToA ==
    CASE CalledOn.modifier \in {"A", "F", "I"} -> OperandA.a
      [] CalledOn.modifier \in {"BA", "X"} -> OperandA.b
      [] OTHER -> None
BroughtToB ==
    CASE CalledOn.modifier \in {"B", "F", "I"} -> OperandA.b
      [] CalledOn.modifier \in {"AB", "X"} -> OperandA.a
      [] OTHER -> None

\* what ADD, SUB and MUL are to make of the A number x and the B number y
Arithmetic(opcode, x, y, m) ==
    CASE x = None -> None
      [] opcode = "ADD" -> (x + y) % m
      [] opcode = "SUB" -> (y - x) % m
      [] opcode = "MUL" -> ExactMulMod(x, y, m)

(***************************************************************************)
(* C23: ADD, SUB and MUL succeed, write (A + B) mod core_size,             *)
(* (B - A) mod core_size and (A * B) mod core_size into the fields of the  *)
(* B-target the modifier selects (A and B being the latched numbers of the *)
(* two operands), a value in 0 .. core_size - 1, change nothing else and   *)
(* set no PC offset, so that the task goes on at +1.                       *)
(***************************************************************************)
C23_Arithmetic ==
    (Called /\ CalledOn.opcode \in {"ADD", "SUB", "MUL"}) =>
        LET m == config.core_size
            x == Arithmetic(CalledOn.opcode, BroughtToA, OperandB.a, m)
            y == Arithmetic(CalledOn.opcode, BroughtToB, OperandB.b, m)
        IN /\ Outcome.err = NoError
           /\ Outcome.program_counter_offset = None
           /\ x \in {None} \cup 0..(m - 1)
           /\ y \in {None} \cup 0..(m - 1)
           /\ instructions = Written(x, y)

(***************************************************************************)
(* C24: the Dwarf, loaded alone in a core of 8000 cells with the default   *)
(* configuration, never executes a DAT: in every reachable state its one   *)
(* thread has its PC on one of the first three cells of the warrior, and   *)
(* these hold no DAT; when run() has ended the warrior is not marked Loss. *)
(***************************************************************************)
C24_DwarfLives ==
    programs = <<Dwarf>> =>
        /\ Len(process_queue.queue) = 1
        /\ process_queue.queue[1].id = 0
        /\ process_queue.queue[1].offset \in 0..2
        /\ \A i \in 0..2 : instructions[i].opcode # "DAT"
        /\ executed # <<>> =>
               /\ Last(executed).instruction.opcode # "DAT"
               /\ Last(executed).err = NoError
        /\ pc = "done" => results[0].kind # "Loss"

\* run() has ended after max_cycles steps, six here, with the Dwarf the
\* winner: it has thrown its first two bombs, at the cells 7 and 11, and its
\* thread is at its first cell again
C24_Witness ==
    /\ programs = <<Dwarf>>
    /\ pc = "done"
    /\ config.core_size = DEFAULT_CORE_SIZE
    /\ steps_taken = config.max_cycles
    /\ steps_taken >= 6
    /\ results = (0 :> Win)
    /\ instructions[7] = Instruction("DAT", "F", Field("#", 0), Field("#", 4))
    /\ instructions[11] = Instruction("DAT", "F", Field("#", 0), Field("#", 8))
    /\ instructions[4] = InstructionDefault
    /\ \A i \in DOMAIN executed : executed[i].instruction.opcode \in {"ADD", "MOV", "JMP"}

(***************************************************************************)
(* C25 as claimed: when run() has ended on the battle of two Imps in a     *)
(* core of 200 cells, exactly one warrior is not marked Loss and the other *)
(* is marked Loss(ExecuteDat(_)).                                          *)
(***************************************************************************)
TwoImps == programs = <<Imp, Imp>>

C25_MutualKill ==
    (TwoImps /\ pc = "done") =>
        \E w \in {0, 1} :
            /\ results[w].kind # "Loss"
            /\ results[1 - w].kind = "Loss"
            /\ results[1 - w].err.error = "ExecuteDat"

(***************************************************************************)
(* C25 as amended: in the battle of two Imps no task ever fails: every     *)
(* step executes a `MOV.I $0, $1`, both warriors keep their one thread,    *)
(* no warrior is marked Loss, and run() ends when steps_taken has reached  *)
(* max_cycles, with Tie for both.                                          *)
(***************************************************************************)
C25_ImpsTie ==
    TwoImps =>
        /\ \A i \in DOMAIN executed :
               executed[i].instruction = ImpCell /\ executed[i].err = NoError
        /\ \A w \in {0, 1} : thread_count(process_queue, w) = 1
        /\ \A w \in DOMAIN results : results[w].kind # "Loss"
        /\ pc \in {"finish", "done"} => steps_taken = config.max_cycles
        /\ pc = "done" => results = (0 :> Tie @@ 1 :> Tie)

\* run() has ended on the two Imps, min_distance 100, after both went once
\* around the core: every cell is an Imp and both warriors have Tie
C25_Witness ==
    /\ TwoImps
    /\ pc = "done"
    /\ config.core_size = 200
    /\ config.min_distance = 100
    /\ steps_taken > 2 * config.core_size
    /\ results = (0 :> Tie @@ 1 :> Tie)
    /\ \A i \in DOMAIN instructions : instructions[i] = ImpCell

(***************************************************************************)
(* C26: with zero warriors loading succeeds, and run() returns at once:    *)
(* its first step() returns Halt, steps_taken stays 0, no cell of the core *)
(* changes and the result map is empty.                                    *)
(***************************************************************************)
\* load_warriors was called with the empty list and has returned
LoadedNone == pc = "loaded" /\ args = <<>>

C26_NoWarriors ==
    /\ LoadedNone => load_result = Ok(None)
    /\ (warriors = <<>> /\ Running) =>
           /\ steps_taken = 0
           /\ executed = <<>>
           /\ \A i \in DOMAIN instructions : instructions[i] = InstructionDefault
           /\ results = EmptyMap
           /\ step_result = IF pc = "run" THEN NoStep ELSE Halt

\* load_warriors(&[]) returned Ok, and run() has returned after one step()
C26_Witness ==
    /\ warriors = <<>>
    /\ args = <<>>
    /\ load_result = Ok(None)
    /\ pc = "done"
    /\ step_result = Halt
    /\ steps_taken = 0
    /\ results = EmptyMap

\* the operands of the instruction have no predecrement and no postincrement
NoSideEffect ==
    /\ CalledOn.a_field.address_mode \in {"#", "$", "*", "@"}
    /\ CalledOn.b_field.address_mode \in {"#", "$", "*", "@"}

\* the core as the evaluation of the operands leaves it, nothing written
Unwritten ==
    /\ instructions = AfterOperands(call.cells, call.program_counter, config.core_size)
    /\ NoSideEffect => instructions = call.cells

\* all that the modifier selects is equal in the two operands: the pairs of
\* fields, or with I the whole instructions
AllEqual ==
    IF CalledOn.modifier = "I"
    THEN Latched.a_instruction = Latched.b_instruction
    ELSE /\ BroughtToA # None => BroughtToA = OperandB.a
         /\ BroughtToB # None => BroughtToB = OperandB.b

\* the core of the call with another opcode in the instruction called on
WithOpcode(opcode) ==
    [call.cells EXCEPT ![call.program_counter].opcode = opcode]

\* the instruction with that opcode has the same two operands
SameOperands(opcode) ==
    LET other == ExecutorNew(WithOpcode(opcode), call.program_counter, config.core_size)
    IN /\ other.a_instruction = Latched.a_instruction
       /\ other.b_instruction = Latched.b_instruction

\* the PC offset execute gives for the instruction with that opcode
OffsetWith(opcode) ==
    execute(WithOpcode(opcode), call.program_counter, config.core_size).program_counter_offset

(***************************************************************************)
(* C27: for every pair of operand cells and every modifier CMP and SEQ     *)
(* give the PC offset 2 exactly when all the field pairs the modifier      *)
(* selects (with I: the whole instructions) are equal, and set no offset   *)
(* (the default, 1) otherwise; SNE is the inverse, so that on the same     *)
(* operands exactly one of SEQ and SNE skips.  None of them writes a cell: *)
(* the core is as the evaluation of the operands left it, unchanged when   *)
(* no operand is predecrement or postincrement.                            *)
(***************************************************************************)
C27_SkipEquality ==
    (Called /\ CalledOn.opcode \in {"CMP", "SEQ", "SNE"}) =>
        LET skip == OffsetNew(2, config.core_size)
            other == IF CalledOn.opcode = "SNE" THEN "SEQ" ELSE "SNE"
        IN /\ Outcome.err = NoError
           /\ ~Outcome.should_split
           /\ CalledOn.opcode \in {"CMP", "SEQ"} =>
                  Outcome.program_counter_offset = IF AllEqual THEN skip ELSE None
           /\ CalledOn.opcode = "SNE" =>
                  Outcome.program_counter_offset = IF AllEqual THEN None ELSE skip
           /\ SameOperands(other) =>
                  (OffsetWith(other) = skip) # (Outcome.program_counter_offset = skip)
           /\ Unwritten

\* `seq.f $2, $1` on two cells with the fields (1, 4), which are not the same
\* instruction: the offset is 2, the core as before, and SNE would not skip
C27_Witness ==
    /\ Called
    /\ CalledOn = Instruction("SEQ", "F", Field("$", 2), Field("$", 1))
    /\ OperandA = [a |-> 1, b |-> config.core_size - 1]
    /\ OperandB = OperandA
    /\ Latched.a_instruction # Latched.b_instruction
    /\ Outcome.program_counter_offset = 2
    /\ SameOperands("SNE")
    /\ OffsetWith("SNE") = None
    /\ instructions = call.cells

\* the offset of a jump: from the program counter to the A-pointer
JumpOffset == (Latched.a_ptr - call.program_counter) % config.core_size

\* the modifier selects the A-field, the B-field, of the B-target
SelectsA == BroughtToA # None
SelectsB == BroughtToB # None

(***************************************************************************)
(* C28: DJN always commits the decrement, modulo core_size, of every field *)
(* of the B-target its modifier selects, jump or no jump; it sets the PC   *)
(* offset to the jump offset exactly when a decremented value is not 0,    *)
(* and otherwise sets none (the task goes on at +1); a field that held 0   *)
(* holds core_size - 1 afterwards and the jump is taken.                   *)
(***************************************************************************)
C28_Djn ==
    (Called /\ CalledOn.opcode = "DJN") =>
        LET m == config.core_size
            x == IF SelectsA THEN (OperandB.a - 1) % m ELSE None
            y == IF SelectsB THEN (OperandB.b - 1) % m ELSE None
            jumps == (SelectsA /\ x # 0) \/ (SelectsB /\ y # 0)
        IN /\ Outcome.err = NoError
           /\ ~Outcome.should_split
           /\ instructions = Written(x, y)
           /\ Outcome.program_counter_offset = IF jumps THEN JumpOffset ELSE None
           /\ (SelectsA /\ OperandB.a = 0) =>
                  /\ instructions[Latched.b_ptr].a_field.value = m - 1
                  /\ Outcome.program_counter_offset = JumpOffset
           /\ (SelectsB /\ OperandB.b = 0) =>
                  /\ instructions[Latched.b_ptr].b_field.value = m - 1
                  /\ Outcome.program_counter_offset = JumpOffset

\* `djn.b $2, $1` at cell 1 on a B-field 0: the field holds core_size - 1
\* afterwards and the jump to the A-pointer, 2 cells on, is taken
C28_Witness ==
    /\ Called
    /\ call.program_counter = 1
    /\ CalledOn = Instruction("DJN", "B", Field("$", 2), Field("$", 1))
    /\ call.cells[2].b_field.value = 0
    /\ instructions[2].b_field.value = config.core_size - 1
    /\ instructions[2].a_field = call.cells[2].a_field
    /\ Outcome.program_counter_offset = 2

\* the call took the jump
Jumped == Outcome.program_counter_offset # None

(***************************************************************************)
(* C29: JMZ and JMN are complementary.  For every B-target and every       *)
(* modifier, the two-field ones too, JMN takes the jump exactly when JMZ   *)
(* on the same operands does not; a jump taken goes to the A-pointer (the  *)
(* PC offset is the A-pointer less the program counter); and neither       *)
(* writes a cell.                                                          *)
(***************************************************************************)
C29_JmzJmnComplement ==
    (Called /\ CalledOn.opcode \in {"JMZ", "JMN"}) =>
        LET other == IF CalledOn.opcode = "JMZ" THEN "JMN" ELSE "JMZ"
        IN /\ Outcome.err = NoError
           /\ SameOperands(other) => ((OffsetWith(other) # None) # Jumped)
           /\ Jumped => Outcome.program_counter_offset = JumpOffset
           /\ Unwritten

Skips == {"CMP", "SEQ", "SNE", "SLT"}
Jumps == {"JMP", "JMZ", "JMN", "DJN"}

(***************************************************************************)
(* C30: a step that executes an opcode other than SPL with success appends *)
(* exactly one entry to the queue, of the warrior and with the thread id   *)
(* of the entry it popped, at the popped offset plus the PC offset, modulo *)
(* core_size; the PC offset is 1 unless the opcode set one, which only a   *)
(* skip does (2) and a jump does (the A-pointer less the program counter). *)
(***************************************************************************)
C30_OneSuccessor ==
    (pc = "stepped" /\ Outcome.err = NoError /\ CalledOn.opcode # "SPL") =>
        LET entry == Last(popped)
            set == Outcome.program_counter_offset
            by == IF set = None THEN 1 ELSE set
            successor == Entry(entry.id, entry.thread,
                               (entry.offset + by) % config.core_size)
        IN /\ entry = pushed[1]
           /\ pushed = <<entry, successor>>
           /\ process_queue.queue = <<successor>>
           /\ thread_count(process_queue, entry.id) = 1
           /\ step_result = Continue(entry.id, NoError)
           /\ set # None =>
                  \/ CalledOn.opcode \in Skips /\ set = OffsetNew(2, config.core_size)
                  \/ CalledOn.opcode \in Jumps /\ set = JumpOffset

\* the step executed `jmz.b $2, $1` at cell 1 on a B-field 0: the one entry
\* of the queue is the thread 0 of warrior 0 again, 2 cells on, at cell 3
C30_Witness ==
    /\ pc = "stepped"
    /\ CalledOn = Instruction("JMZ", "B", Field("$", 2), Field("$", 1))
    /\ call.cells[2].b_field.value = 0
    /\ Last(popped) = Entry(0, 0, 1)
    /\ Outcome.program_counter_offset = 2
    /\ process_queue.queue = <<Entry(0, 0, 3)>>
    /\ pushed = <<Entry(0, 0, 1), Entry(0, 0, 3)>>

\* the cell a field of the instruction at p points at, in the core `cells`
\* (the core before the field's own predecrement or postincrement)
PointerOf(cells, p, field, m) ==
    LET at == (p + field.value) % m
        mode == field.address_mode
        a == cells[at].a_field.value
        b == cells[at].b_field.value
    IN CASE mode = "#" -> p
         [] mode = "$" -> at
         [] mode \in {"*", "}"} -> (at + a) % m
         [] mode \in {"@", ">"} -> (at + b) % m
         [] mode = "{" -> (at + ((a - 1) % m)) % m
         [] mode = "<" -> (at + ((b - 1) % m)) % m

\* the B-target b after ADD, MOV, DIV or MOD with the modifier md and the A
\* operand a (x: the number of the A operand, y: the one of the B-target it
\* meets, in the field that is written)
Combined(opcode, md, a, b, m) ==
    LET F(x, y) == CASE opcode = "ADD" -> (x + y) % m
                     [] opcode = "MOV" -> x
                     [] opcode = "DIV" -> IF y = 0 THEN y ELSE x \div y
                     [] opcode = "MOD" -> IF y = 0 THEN y ELSE x % y
        aa == F(a.a_field.value, b.a_field.value)
        bb == F(a.b_field.value, b.b_field.value)
        ab == F(a.a_field.value, b.b_field.value)
        ba == F(a.b_field.value, b.a_field.value)
    IN CASE md = "A" -> [b EXCEPT !.a_field.value = aa]
         [] md = "B" -> [b EXCEPT !.b_field.value = bb]
         [] md = "AB" -> [b EXCEPT !.b_field.value = ab]
         [] md = "BA" -> [b EXCEPT !.a_field.value = ba]
         [] md = "X" -> [b EXCEPT !.a_field.value = ba, !.b_field.value = ab]
         [] md = "I" /\ opcode = "MOV" -> a
         [] OTHER -> [b EXCEPT !.a_field.value = aa, !.b_field.value = bb]

(***************************************************************************)
(* C31: the operands of ADD and MOV are evaluated in order.  The A operand *)
(* is the cell at the A-pointer as it is after the side effect of the      *)
(* A-field and before the one of the B-field; the B-pointer is resolved in *)
(* the core that holds the side effect of the A-field; the B operand is    *)
(* the cell at the B-pointer after the side effect of the B-field.  The    *)
(* core after the call is the core after both side effects with the        *)
(* B-target combined from these two operands.                              *)
(***************************************************************************)
C31_OperandOrder ==
    (Called /\ CalledOn.opcode \in {"ADD", "MOV"}) =>
        LET m == config.core_size
            p == call.program_counter
            after_a == AfterOperand(call.cells, p, CalledOn.a_field, m)
            a == after_a[PointerOf(call.cells, p, CalledOn.a_field, m)]
            b_ptr == PointerOf(after_a, p, CalledOn.b_field, m)
            after_b == AfterOperand(after_a, p, CalledOn.b_field, m)
            b == after_b[b_ptr]
        IN instructions =
               [after_b EXCEPT ![b_ptr] = Combined(CalledOn.opcode, CalledOn.modifier, a, b, m)]

\* `add.f $1, <1` followed by `dat.f $1, $1`: the target ends as (2, 1)
C31_Witness ==
    /\ Called
    /\ call.program_counter = 0
    /\ CalledOn = Instruction("ADD", "F", Field("$", 1), Field("<", 1))
    /\ call.cells[1] = Instruction("DAT", "F", Field("$", 1), Field("$", 1))
    /\ instructions[1] = Instruction("DAT", "F", Field("$", 2), Field("$", 1))
    /\ Outcome.err = NoError

\* the fields of the B-target b that the modifier md selects
Selected(md, b) ==
    CASE md \in {"A", "BA"} -> {b.a_field.value}
      [] md \in {"B", "AB"} -> {b.b_field.value}
      [] OTHER -> {b.a_field.value, b.b_field.value}

(***************************************************************************)
(* C32: DIV and MOD, on the A operand at PC + 1 and the B-target at        *)
(* PC + 2, leave in each selected field of the B-target the field of the   *)
(* A operand divided by (taken modulo) the field of the B-target, and      *)
(* leave a field of the B-target that is 0 as it is; the call fails with   *)
(* DivideByZero exactly when a selected field of the B-target is 0.        *)
(***************************************************************************)
C32_DivMod ==
    (Called /\ CalledOn.opcode \in {"DIV", "MOD"}
            /\ CalledOn.a_field = Field("$", 1) /\ CalledOn.b_field = Field("$", 2)) =>
        LET m == config.core_size
            p == call.program_counter
            a == call.cells[(p + 1) % m]
            b == call.cells[(p + 2) % m]
        IN /\ instructions =
                  [call.cells EXCEPT ![(p + 2) % m] =
                       Combined(CalledOn.opcode, CalledOn.modifier, a, b, m)]
           /\ Outcome.err =
                  IF 0 \in Selected(CalledOn.modifier, b) THEN DivideByZero ELSE NoError

\* `div.f $1, $2` with the A operand (8, 7) and the B-target (4, 2) leaves
\* (2, 3) in the B-target
C32_Witness ==
    /\ Called
    /\ CalledOn = Instruction("DIV", "F", Field("$", 1), Field("$", 2))
    /\ call.cells[1] = Instruction("DAT", "F", Field("#", 8), Field("#", 7))
    /\ call.cells[2] = Instruction("DAT", "F", Field("#", 4), Field("#", 2))
    /\ instructions[2] = Instruction("DAT", "F", Field("#", 2), Field("#", 3))
    /\ Outcome.err = NoError

(***************************************************************************)
(* C33: a step that executes an SPL for a warrior that holds max_processes *)
(* (or more) entries in the queue enqueues only the executing thread, at   *)
(* PC + 1 under its own thread id, and drops the new thread, so that the   *)
(* warrior holds as many entries after the step as before it.              *)
(***************************************************************************)
C33_SplAtCap ==
    [][(/\ StepPopped
        /\ Last(executed').instruction.opcode = "SPL"
        /\ ThreadsOf(process_queue.queue, Head(process_queue.queue).id)
               >= config.max_processes) =>
          LET m == config.core_size
              cur == Head(process_queue.queue)
          IN /\ process_queue'.queue =
                    Tail(process_queue.queue) \o
                        <<Entry(cur.id, cur.thread, (cur.offset + 1) % m)>>
             /\ ThreadsOf(process_queue'.queue, cur.id)
                    = ThreadsOf(process_queue.queue, cur.id)]_vars

\* no two queued entries of one warrior carry the same thread id
UniqueThreads(q) ==
    \A i, j \in DOMAIN q.queue :
        (i # j /\ q.queue[i].id = q.queue[j].id) => q.queue[i].thread # q.queue[j].thread

\* the counter of each warrior is above every thread id of the entries pushed
\* for it so far
AboveAssigned(q, entries) ==
    \A i \in DOMAIN entries :
        /\ entries[i].id \in DOMAIN q.next_thread_id
        /\ q.next_thread_id[entries[i].id] > entries[i].thread

\* no counter is lost or lowered by the transition
CountersGrow ==
    \A w \in DOMAIN process_queue.next_thread_id :
        /\ w \in DOMAIN process_queue'.next_thread_id
        /\ process_queue'.next_thread_id[w] >= process_queue.next_thread_id[w]

(***************************************************************************)
(* C34 as stated: in every reachable state of the queue no two queued      *)
(* entries of one warrior carry the same thread id, next_thread_id[w] is   *)
(* strictly greater than the thread id of every entry ever pushed for w,   *)
(* and it never decreases.                                                 *)
(***************************************************************************)
C34_UniqueThreadIds ==
    [][/\ UniqueThreads(process_queue')
       /\ AboveAssigned(process_queue', pushed')
       /\ CountersGrow]_vars

(***************************************************************************)
(* C34 amended: next_thread_id[w] never decreases; a push that moves it    *)
(* moves it by one and gives the entry the value it had (0 at first), so   *)
(* it is above every thread id the queue has assigned.  In every state     *)
(* reached through the core (load_warrior, step, run) no two queued        *)
(* entries of one warrior carry the same thread id and next_thread_id[w]   *)
(* is strictly greater than the thread id of every entry ever pushed for   *)
(* w.  (Queue::push called directly with a thread id takes it as given.)   *)
(***************************************************************************)
C34_ThreadIds ==
    [][/\ CountersGrow
       /\ (process_queue'.next_thread_id # process_queue.next_thread_id) =>
              \E w \in DOMAIN process_queue'.next_thread_id :
                  LET was == MapGetOr(process_queue.next_thread_id, w, 0)
                  IN /\ process_queue'.next_thread_id =
                            MapPut(process_queue.next_thread_id, w, was + 1)
                     /\ Len(pushed') > Len(pushed)
                     /\ \E i \in (Len(pushed) + 1)..Len(pushed') :
                            pushed'[i].id = w /\ pushed'[i].thread = was
       /\ pc' # "queue" =>
              /\ UniqueThreads(process_queue')
              /\ AboveAssigned(process_queue', pushed')]_vars

\* in a run a warrior has split twice: it holds three entries with three
\* thread ids, and its counter stands at 3
C34_Witness ==
    /\ pc = "run"
    /\ \E w \in DOMAIN process_queue.next_thread_id :
           /\ process_queue.next_thread_id[w] = 3
           /\ {process_queue.queue[i].thread :
                   i \in {j \in DOMAIN process_queue.queue : process_queue.queue[j].id = w}}
                  = {0, 1, 2}

\* the entries the transition popped, and the entries it pushed
NewlyPopped == {popped'[k] : k \in (Len(popped) + 1)..Len(popped')}
NewlyPushed == {pushed'[k] : k \in (Len(pushed) + 1)..Len(pushed')}

(***************************************************************************)
(* C35: death is permanent.  A step enqueues entries only for the warrior  *)
(* whose entry it popped; a warrior whose thread count is 0 once the       *)
(* loading is over keeps the count 0 and no queue entry, and no entry of   *)
(* it is popped (none of its instructions is executed) again; and a Loss   *)
(* in the result map stays the same Loss to the end of run().              *)
(***************************************************************************)
C35_DeathIsPermanent ==
    [][/\ StepPopped => \A e \in NewlyPushed : e.id = Head(process_queue.queue).id
       /\ \A w \in Loaded :
              (pc # "load" /\ thread_count(process_queue, w) = 0) =>
                  /\ thread_count(process_queue', w) = 0
                  /\ ThreadsOf(process_queue'.queue, w) = 0
                  /\ \A e \in NewlyPopped : e.id # w
       /\ \A w \in DOMAIN results :
              results[w].kind = "Loss" =>
                  w \in DOMAIN results' /\ results'[w] = results[w]]_vars

\* of three warriors one died, the two others were stepped after its death,
\* and run() has returned with the Loss of the dead one
C35_Witness ==
    /\ pc = "done"
    /\ Len(warriors) = 3
    /\ \E w \in Loaded :
           /\ thread_count(process_queue, w) = 0
           /\ results[w].kind = "Loss"
           /\ \E i \in DOMAIN executed :
                  /\ DiedAt(w, i)
                  /\ Len(executed) >= i + 2
                  /\ results[w] = Loss(executed[i].err)

\* the warriors with a result of the kind k
With(k) == {w \in DOMAIN results : results[w].kind = k}

(***************************************************************************)
(* C36: the result map run() returns holds one result, Win, Tie or Loss,   *)
(* for every loaded warrior and for nothing else; at most one warrior is   *)
(* Win; and when a warrior is Tie at least two are Tie and none is Win.    *)
(***************************************************************************)
C36_ResultMap ==
    pc = "done" =>
        /\ DOMAIN results = Loaded
        /\ \A w \in Loaded : results[w].kind \in {"Win", "Tie", "Loss"}
        /\ Cardinality(With("Win")) <= 1
        /\ With("Tie") # {} => Cardinality(With("Tie")) >= 2 /\ With("Win") = {}

\* a battle of three ended with one warrior dead and the two others tied
C36_Witness ==
    /\ pc = "done"
    /\ Len(warriors) = 3
    /\ Cardinality(With("Loss")) = 1
    /\ Cardinality(With("Tie")) = 2

\* the loaded warriors that are not marked Loss
Unbeaten == Loaded \ With("Loss")

(***************************************************************************)
(* C37: in a battle of two or more warriors run() never returns with every *)
(* warrior marked Loss: a step marks at most one warrior Loss, the loop is *)
(* left as soon as at most one warrior is not marked Loss, and so at least *)
(* one warrior is reported Win or Tie.                                     *)
(***************************************************************************)
C37_SomeoneSurvives ==
    [][Len(warriors') >= 2 =>
          /\ Cardinality(With("Loss")') <= Cardinality(With("Loss")) + 1
          /\ pc' \in {"run", "finish", "done"} => Unbeaten' # {}
          /\ (pc = "run" /\ Cardinality(Unbeaten') <= 1) => pc' = "finish"
          /\ pc' = "done" => With("Win")' \cup With("Tie")' # {}]_vars

\* of three warriors two have died and the third, whose next instruction is
\* a DAT, is the winner
C37_Witness ==
    /\ pc = "done"
    /\ Len(warriors) = 3
    /\ Cardinality(With("Loss")) = 2
    /\ \E w \in Loaded :
           /\ results[w] = Win
           /\ process_queue.queue # <<>>
           /\ Head(process_queue.queue).id = w
           /\ instructions[Head(process_queue.queue).offset].opcode = "DAT"

(***************************************************************************)
(* C39: DIV and MOD never divide by zero.  With every modifier and every   *)
(* pair of operand cells the call ends without a panic: it fails with      *)
(* DivideByZero exactly when a selected field of the B operand, the        *)
(* divisor, is 0, and no field whose divisor is 0 is written.              *)
(***************************************************************************)
C39_NoZeroDivisor ==
    (Called /\ CalledOn.opcode \in {"DIV", "MOD"}) =>
        /\ Outcome.err # Panicked
        /\ Outcome.err = IF 0 \in Selected(CalledOn.modifier, Latched.b_instruction)
                         THEN DivideByZero ELSE NoError
        /\ (SelectsA /\ OperandB.a = 0) => instructions[Latched.b_ptr].a_field.value = 0
        /\ (SelectsB /\ OperandB.b = 0) => instructions[Latched.b_ptr].b_field.value = 0

\* `mod.x >2, >1` met the divisors 0 and 1: the call failed with
\* DivideByZero, without a panic, and left the field with the divisor 0
C39_Witness ==
    /\ Called
    /\ CalledOn = Instruction("MOD", "X", Field(">", 2), Field(">", 1))
    /\ OperandB.a = 0
    /\ OperandB.b = 1
    /\ Outcome.err = DivideByZero
    /\ instructions[Latched.b_ptr].a_field.value = 0

\* a chain of unary operators applied innermost first: the operator
\* nearest the number first
RECURSIVE InnermostFirst(_, _)
InnermostFirst(ops, x) ==
    IF ops = <<>>
    THEN x
    ELSE LET inner == InnermostFirst(Tail(ops), x)
         IN CASE Head(ops) = "-" -> -inner
              [] Head(ops) = "!" -> IF inner = 0 THEN 1 ELSE 0
              [] Head(ops) = "+" -> inner

(***************************************************************************)
(* C40: the evaluator applies a chain of unary operators innermost first   *)
(* (`-!0` is -1, `!-0` is 1; `!` gives 1 for 0 and 0 for any other number, *)
(* `+` is the identity), and the operators of a product associate to the   *)
(* left (`24 / 4 / 2` is 3).                                               *)
(***************************************************************************)
C40_UnaryInnermostFirst ==
    (pc = "evaluated" /\ ~evaluated.panicked) =>
        LET first == evaluated.tree[1]
        IN /\ Len(evaluated.tree) = 1 =>
                  evaluated.value = InnermostFirst(first.ops, first.number)
           /\ Len(evaluated.tree) = 5 =>
                  evaluated.value =
                      mul_op(evaluated.tree[4],
                             mul_op(evaluated.tree[2], first.number,
                                    evaluated.tree[3].number),
                             evaluated.tree[5].number)

\* the step() calls a core has made in run(): a Halt is a call that is not
\* counted in steps_taken
Calls(steps, s_result) == steps + (IF s_result = Halt THEN 1 ELSE 0)

====
